---- MODULE Spec2Model ----
(***************************************************************************)
(* A model of the latex-tools build orchestrator (lib/main.js) and of its  *)
(* build registry (lib/build-service.js).                                  *)
(*                                                                         *)
(* JavaScript values are modelled as follows.  A Map is a record           *)
(* [keys, vals]: keys is the sequence of keys in insertion order, vals a   *)
(* function defined on every path that is only meaningful for the keys.    *)
(* Timestamps are the positive integers Date.now() returns; the number 0   *)
(* stands for a missing (undefined / null) timestamp, which is also what   *)
(* the code's `x || null` turns a 0 into.  The strings Null and Undefined  *)
(* stand for null and undefined where the value is otherwise a string.     *)
(***************************************************************************)
EXTENDS Integers, Sequences, FiniteSets, TLC

\* ------------------------------------------------------------------ bounds

\* The number of compiler processes spawned in one run of the model.
MaxProcs == 2

\* The largest value the clock (Date.now()) reaches.
MaxTime == 2

\* The largest number of lines of a log handed to the parser.
MaxLines == 4

\* The longest list of diagnostics passed to the linter provider.
MaxDiagnostics == 3

\* The most open-PDF requests made.
MaxRequests == 1

\* ------------------------------------------------------------- value sets

Null == "null"
Undefined == "undefined"

\* The .tex files of the workspace.
TexPaths == {"a.tex", "b.tex"}

\* A path that fails the `.endsWith(".tex")` checks.
OtherPaths == {"notes.txt"}

AllPaths == TexPaths \cup OtherPaths

\* filePath.endsWith(".tex"), for a non-empty path.
EndsWithTex(filePath) == filePath \in TexPaths

\* What the registry's internal methods are given by their callers.
ErrorSummaries == {"Build interrupted by user", "Exit code 1", "latexmk not found"}
Outputs == {"", "latexmk output"}

\* elapsedTime of finishBuild: -1 stands for the default null.
ElapsedTimes == {-1, 1500}

\* ------------------------------------------------------------------- Maps

RECURSIVE SeqWithout(_, _)
SeqWithout(s, k) ==
  IF s = <<>> THEN <<>>
  ELSE IF Head(s) = k THEN SeqWithout(Tail(s), k)
       ELSE <<Head(s)>> \o SeqWithout(Tail(s), k)

SeqRange(s) == {s[i] : i \in 1..Len(s)}

MapHas(m, k) == k \in SeqRange(m.keys)

\* Map.prototype.set: a new key goes last, an existing key keeps its place.
\* A set that overwrites the value of every key.
MapSet_Everywhere(m, k, v) ==
  [keys |-> IF MapHas(m, k) THEN m.keys ELSE Append(m.keys, k),
   vals |-> [x \in DOMAIN m.vals |-> v]]

MapSet(m, k, v) ==
  [keys |-> IF MapHas(m, k) THEN m.keys ELSE Append(m.keys, k),
   vals |-> [m.vals EXCEPT ![k] = v]]

\* Map.prototype.delete; `blank` is the filler kept for keys not in the map.
MapDelete(m, k, blank) ==
  [keys |-> SeqWithout(m.keys, k),
   vals |-> [m.vals EXCEPT ![k] = blank]]

\* Map.prototype.clear.
MapClear(m, blank) ==
  [keys |-> <<>>, vals |-> [k \in DOMAIN m.vals |-> blank]]

\* -------------------------------------------------- registry: the records

NoRecord == [status |-> Undefined, startTime |-> 0, endTime |-> 0, error |-> Undefined]

\* { status: 'building', startTime: Date.now() }
BuildingRecord(t) ==
  [status |-> "building", startTime |-> t, endTime |-> 0, error |-> Undefined]

\* { status: 'success', endTime }
SuccessRecord(t) ==
  [status |-> "success", startTime |-> 0, endTime |-> t, error |-> Undefined]

\* { status: 'error', endTime, error }
ErrorRecord(t, error) ==
  [status |-> "error", startTime |-> 0, endTime |-> t, error |-> error]

\* --------------------------------------------------- registry: the events

DidStartBuild(filePath) == [type |-> "did-start-build", file |-> filePath]

DidFinishBuild(filePath, output, elapsedTime) ==
  [type |-> "did-finish-build", file |-> filePath, output |-> output,
   elapsedTime |-> elapsedTime]

DidFailBuild(filePath, error, output) ==
  [type |-> "did-fail-build", file |-> filePath, error |-> error, output |-> output]

\* The status-change event; startBuild, finishBuild and reset leave `error` out.
DidChangeBuildStatus(status, filePath, error) ==
  [type |-> "did-change-build-status", status |-> status, file |-> filePath,
   error |-> error]

DidUpdateMessages(filePath, messages) ==
  [type |-> "did-update-messages", file |-> filePath, messages |-> messages]

\* ----------------------------------------------- registry: the operations
\* Each operation maps the Map buildingFiles (and its arguments) to the new
\* Map and the events it publishes, in order.

startBuild(files, filePath, t) ==
  [files |-> MapSet(files, filePath, BuildingRecord(t)),
   events |-> <<DidStartBuild(filePath),
                DidChangeBuildStatus("building", filePath, Undefined)>>]

\* A finishBuild that publishes did-finish-build without the status change.
finishBuild_Silent(files, filePath, output, elapsedTime, t) ==
  [files |-> MapSet(files, filePath, SuccessRecord(t)),
   events |-> <<DidFinishBuild(filePath, output, elapsedTime)>>]

finishBuild(files, filePath, output, elapsedTime, t) ==
  [files |-> MapSet(files, filePath, SuccessRecord(t)),
   events |-> <<DidFinishBuild(filePath, output, elapsedTime),
                DidChangeBuildStatus("success", filePath, Undefined)>>]

\* A failBuild that stores the record without the error summary.
failBuild_NoSummary(files, filePath, error, output, t) ==
  [files |-> MapSet(files, filePath, ErrorRecord(t, Undefined)),
   events |-> <<DidFailBuild(filePath, error, output),
                DidChangeBuildStatus("error", filePath, error)>>]

failBuild(files, filePath, error, output, t) ==
  [files |-> MapSet(files, filePath, ErrorRecord(t, error)),
   events |-> <<DidFailBuild(filePath, error, output),
                DidChangeBuildStatus("error", filePath, error)>>]

updateMessages(filePath, messages) == <<DidUpdateMessages(filePath, messages)>>

\* A reset that clears every record whatever path it is given.
reset_ClearsAll(files, filePath) ==
  [files |-> MapClear(files, NoRecord),
   events |-> <<DidChangeBuildStatus("idle", filePath, Undefined)>>]

\* reset(filePath = null): a falsy path clears every record.
reset(files, filePath) ==
  IF filePath \notin {Null, ""}
  THEN [files |-> MapDelete(files, filePath, NoRecord),
        events |-> <<DidChangeBuildStatus("idle", filePath, Undefined)>>]
  ELSE [files |-> MapClear(files, NoRecord),
        events |-> <<DidChangeBuildStatus("idle", Null, Undefined)>>]

\* -------------------------------------------------- registry: the queries

\* A getStatus without the 'idle' default for a path that has no record.
getStatus_NoDefault(files, filePath) ==
  [status |-> files.vals[filePath].status,
   file |-> filePath,
   startTime |-> files.vals[filePath].startTime,
   endTime |-> files.vals[filePath].endTime,
   error |-> IF files.vals[filePath].error \notin {Undefined, ""}
             THEN files.vals[filePath].error ELSE Null]

\* getStatus(filePath) for a path: `x || null` turns a missing value into null.
getStatus(files, filePath) ==
  LET has == MapHas(files, filePath)
      fileStatus == files.vals[filePath]
  IN [status |-> IF has THEN fileStatus.status ELSE "idle",
      file |-> filePath,
      startTime |-> IF has THEN fileStatus.startTime ELSE 0,
      endTime |-> IF has THEN fileStatus.endTime ELSE 0,
      error |-> IF has /\ fileStatus.error \notin {Undefined, ""}
                THEN fileStatus.error ELSE Null]

\* The entries of `files` that are building, in Map order.
RECURSIVE BuildingKeys(_, _)
BuildingKeys(files, keys) ==
  IF keys = <<>> THEN <<>>
  ELSE (IF files.vals[Head(keys)].status = "building" THEN <<Head(keys)>> ELSE <<>>)
       \o BuildingKeys(files, Tail(keys))

\* An aggregate that counts every tracked path as building.
getStatusAll_CountsTracked(files) ==
  [status |-> IF Len(files.keys) > 0 THEN "building" ELSE "idle",
   buildingCount |-> Len(files.keys),
   files |-> [i \in 1..Len(files.keys) |->
                [file |-> files.keys[i],
                 status |-> files.vals[files.keys[i]].status,
                 startTime |-> files.vals[files.keys[i]].startTime,
                 endTime |-> files.vals[files.keys[i]].endTime]]]

\* getStatus() without a path: the aggregate.
getStatusAll(files) ==
  LET buildingCount == Len(BuildingKeys(files, files.keys))
  IN [status |-> IF buildingCount > 0 THEN "building" ELSE "idle",
      buildingCount |-> buildingCount,
      files |-> [i \in 1..Len(files.keys) |->
                   [file |-> files.keys[i],
                    status |-> files.vals[files.keys[i]].status,
                    startTime |-> files.vals[files.keys[i]].startTime,
                    endTime |-> files.vals[files.keys[i]].endTime]]]

\* isBuilding(filePath): `fileStatus && ...` is undefined for an untracked path.
isBuilding(files, filePath) ==
  IF ~MapHas(files, filePath) THEN Undefined
  ELSE IF files.vals[filePath].status = "building" THEN "true" ELSE "false"

isAnyBuilding(files) == \E k \in SeqRange(files.keys) : files.vals[k].status = "building"

\* JavaScript truthiness of what isBuilding returns.
Truthy(v) == v = "true"

\* ------------------------------------------------------ the orchestrator

\* Diagnostics as the log parser returns them (the fields the orchestrator reads).
Diag(severity, excerpt, row) ==
  [severity |-> severity, excerpt |-> excerpt, row |-> row]

\* What parsing a log file can produce.
ParsedLogs ==
  { <<Diag("warning", "Reference 'fig:x' undefined", 41)>>,
    <<Diag("info", "Overfull hbox", 9),
      Diag("error", "Missing $ inserted.", 4),
      Diag("warning", "Citation 'k' undefined", 0),
      Diag("error", "Undefined control sequence.", 11)>> }

\* The log file when a handler looks at it: missing, unreadable (readFileSync
\* throws) or parsed into a list of diagnostics.
LogFiles ==
  {[kind |-> "missing", messages |-> <<>>], [kind |-> "unreadable", messages |-> <<>>]}
  \cup {[kind |-> "parsed", messages |-> m] : m \in ParsedLogs}

\* The log file a handler does not look at.
NoLog == [kind |-> "missing", messages |-> <<>>]

\* What latexmk wrote to its standard output and standard error.
Stdouts == {"latexmk output"}
Stderrs == {"", "latexmk: error"}

\* Non-zero exit codes of latexmk.
FailureCodes == {1, 12}

\* `Exit code ${code}`
ExitCodeSummary(code) == IF code = 1 THEN "Exit code 1" ELSE "Exit code 12"

\* `Critical error: Compilation failed with exit code ${code}`
CriticalExcerpt(code) ==
  IF code = 1 THEN "Critical error: Compilation failed with exit code 1"
  ELSE "Critical error: Compilation failed with exit code 12"

\* The active pane item: nothing, a text editor on a path, or a PDF viewer whose
\* .tex file (path) exists.
NoItem == [kind |-> "none", path |-> Null]
Items ==
  {NoItem} \cup {[kind |-> "editor", path |-> p] : p \in TexPaths}
  \cup {[kind |-> "pdf", path |-> "a.tex"]}

NoProcess == [process |-> 0, startTime |-> 0]

\* A compiler process that has reported its exit, or failed to start: none of
\* its callbacks runs again.
Gone == [file |-> Null, startTime |-> 0, killed |-> FALSE, pending |-> {}]

\* getBuildState's default for a file without stored state.
DefaultBuildState == [status |-> "idle"]

\* lastOp when the last operation is not one whose call is recorded.
NoOp == [op |-> "none", file |-> Null, args |-> <<>>, before |-> "none",
         ret |-> Undefined]

VARIABLES
  buildingFiles,        \* BuildService.buildingFiles: Map path -> record
  buildStates,          \* main.buildStates: path -> {status}; the message and the
                        \* timer fields are display text no handler decides on
  buildProcesses,       \* main.buildProcesses: Map path -> {process, startTime}
  procs,                \* the compiler processes spawned so far
  compileOnSaveEditors, \* the editors (by path) with compile-on-save enabled
  activeItem,           \* the active pane item of the workspace
  currentTexFile,       \* main.currentTexFile
  statusBar,            \* StatusBarView: currentStatus and visibility
  now,                  \* Date.now()
  emitted,              \* the events published by the last operation, in order
  lastOp,               \* the last service or registry call: its arguments, the
                        \* lifecycle event last seen for its file before it, and
                        \* what it returned
  lastSet,              \* per path, the last lifecycle event a subscriber saw
  logParser,            \* main.logParser: the LogParser instance, and the call
                        \* of parse in progress or last made on it
  lastChange,           \* per editor, the `enabled` of the last
                        \* did-change-compile-on-save event a subscriber saw
  pdf,                  \* the open-PDF requests made so far, in order: for each
                        \* its file, the process whose build it waits for (0
                        \* if none), whether it waits, was released, has its
                        \* open scheduled or has opened the PDF, and the
                        \* process whose exit published the finish it saw
  subscriber,           \* what the callback does that another package has
                        \* subscribed to the service's events
  latexPanel,           \* a LaTeXPanel: the messages it displays, the messages
                        \* it was given, its file and building flag, and the
                        \* last call of setMessages made on it
  linter                \* main.linterProvider: its indie instance with the
                        \* messages it holds, the outputVerbosity setting, and
                        \* the arguments of the setMessages call that set them

vars == <<buildingFiles, buildStates, buildProcesses, procs, compileOnSaveEditors,
          activeItem, currentTexFile, statusBar, now, emitted, lastOp, lastSet,
          logParser, lastChange, pdf, linter,
                 latexPanel, subscriber>>

\* What a subscriber to every channel knows after seeing `evs`, in order: per
\* path, the last lifecycle event (none after a reset).
RECURSIVE Observe(_, _)
Observe(seen, evs) ==
  IF evs = <<>> THEN seen
  ELSE LET e == Head(evs)
           next ==
             CASE e.type = "did-start-build" -> [seen EXCEPT ![e.file] = "start"]
               [] e.type = "did-finish-build" -> [seen EXCEPT ![e.file] = "finish"]
               [] e.type = "did-fail-build" -> [seen EXCEPT ![e.file] = "fail"]
               [] e.type = "did-change-build-status" /\ e.status = "idle" ->
                    IF e.file = Null THEN [f \in TexPaths |-> "none"]
                    ELSE [seen EXCEPT ![e.file] = "none"]
               [] OTHER -> seen
       IN Observe(next, Tail(evs))

\* The part of the state the handlers of main.js read and write.
Main ==
  [buildingFiles |-> buildingFiles, buildStates |-> buildStates,
   buildProcesses |-> buildProcesses, procs |-> procs,
   compileOnSaveEditors |-> compileOnSaveEditors,
   currentTexFile |-> currentTexFile, statusBar |-> statusBar, pdf |-> pdf,
   subscriber |-> subscriber, events |-> <<>>]

\* What a subscriber of onDidChangeCompileOnSave has seen last for each
\* editor, after the events evs.
RECURSIVE ObserveCompileOnSave(_, _)
ObserveCompileOnSave(seen, evs) ==
  IF evs = <<>> THEN seen
  ELSE LET e == Head(evs)
       IN ObserveCompileOnSave(
            IF e.type = "did-change-compile-on-save"
            THEN [seen EXCEPT ![e.editor] = IF e.enabled THEN "true" ELSE "false"]
            ELSE seen,
            Tail(evs))

\* The process whose exit or error callback is the handler that led to S.
EndedBy(S) ==
  LET ended == {pid \in 1..Len(procs) : procs[pid] # Gone /\ S.procs[pid] = Gone}
  IN IF ended = {} THEN 0 ELSE CHOOSE pid \in ended : TRUE

\* The callbacks waitForBuildAndOpen subscribed for one request, called with
\* one event: a finish of the file disposes the subscription and schedules
\* the opening, a failure of the file disposes the subscription.
NotifyRequest(w, e, by) ==
  IF w.status # "waiting" \/ e.file # w.file THEN w
  ELSE IF e.type = "did-finish-build"
  THEN [w EXCEPT !.status = "scheduled", !.finishedBy = by]
  ELSE IF e.type = "did-fail-build" THEN [w EXCEPT !.status = "released"]
  ELSE w

\* The requests after the events evs were published in order.
RECURSIVE NotifyRequests(_, _, _)
NotifyRequests(requests, evs, by) ==
  IF evs = <<>> THEN requests
  ELSE NotifyRequests([i \in 1..Len(requests) |->
                         NotifyRequest(requests[i], Head(evs), by)],
                      Tail(evs), by)

\* A handler ran from state Main to state S and published S.events.
Run(S) ==
  /\ pdf' = NotifyRequests(S.pdf, S.events, EndedBy(S))
  /\ buildingFiles' = S.buildingFiles
  /\ buildStates' = S.buildStates
  /\ buildProcesses' = S.buildProcesses
  /\ procs' = S.procs
  /\ compileOnSaveEditors' = S.compileOnSaveEditors
  /\ currentTexFile' = S.currentTexFile
  /\ statusBar' = S.statusBar
  /\ emitted' = S.events
  /\ lastSet' = Observe(lastSet, S.events)
  /\ lastChange' = ObserveCompileOnSave(lastChange, S.events)

\* The record of a call: `before` is the lifecycle event last seen for its file.
Call(op, file, args, ret) ==
  [op |-> op, file |-> file, args |-> args,
   before |-> IF file \in TexPaths THEN lastSet[file] ELSE "none", ret |-> ret]

\* What service.compile(filePath) returns: false for a path that is not a .tex
\* path and when isBuilding(filePath) is truthy, true after runCompilation.
compileReturns(files, filePath) ==
  IF ~EndsWithTex(filePath) \/ Truthy(isBuilding(files, filePath))
  THEN "false" ELSE "true"

RECURSIVE runCompilation(_, _)

\* service.compile(filePath) called from inside a callback.
serviceCompile(S, filePath) ==
  IF compileReturns(S.buildingFiles, filePath) = "false" THEN S
  ELSE runCompilation(S, filePath)

\* The subscribed callback is called with event e: a package that rebuilds a
\* file whose build failed calls service.compile from its did-fail-build
\* callback.
React(S, e) ==
  IF S.subscriber = "compile-on-fail" /\ e.type = "did-fail-build"
  THEN serviceCompile(S, e.file)
  ELSE S

\* emitter.emit for each of the events in turn: an event is published and the
\* callback runs before the next event is published.
RECURSIVE Dispatch(_, _)
Dispatch(S, evs) ==
  IF evs = <<>> THEN S
  ELSE Dispatch(React([S EXCEPT !.events = Append(@, Head(evs))], Head(evs)),
                Tail(evs))

\* A call of a registry operation from a handler: r is the record the
\* operation stores and the events it then publishes.
Registry(S, r) == Dispatch([S EXCEPT !.buildingFiles = r.files], r.events)

setBuildState(S, filePath, status) ==
  [S EXCEPT !.buildStates[filePath] = [status |-> status]]

getBuildState(S, filePath) == S.buildStates[filePath]

\* statusBarView.setStatus(status, ...), which also shows the view.
setStatus(S, status) == [S EXCEPT !.statusBar = [status |-> status, visible |-> TRUE]]

hide(S) == [S EXCEPT !.statusBar.visible = FALSE]

\* atom.workspace.getActiveTextEditor(): the active item when it is an editor.
ActiveEditorPath == IF activeItem.kind = "editor" THEN activeItem.path ELSE Null

isStatusBarActiveFor(S, filePath) ==
  ActiveEditorPath = filePath \/ S.currentTexFile = filePath

checkBuildStatus(S, filePath) == MapHas(S.buildProcesses, filePath)

\* killProcess: the process (group) is sent SIGTERM, or taskkill is spawned.
killProcess(S, pid) == [S EXCEPT !.procs[pid].killed = TRUE]

updateStatusBarVisibility(S, item) ==
  IF ~EndsWithTex(item.path) THEN hide(S)
  ELSE setStatus([S EXCEPT !.currentTexFile = item.path],
                 getBuildState(S, item.path).status)

\* isCompileOnSaveEnabled(editor); an editor is named by the path it shows.
isCompileOnSaveEnabled(S, editor) ==
  editor # Null /\ editor \in S.compileOnSaveEditors

\* disableCompileOnSave(editorId)
disableCompileOnSave(S, editorId) ==
  [S EXCEPT !.compileOnSaveEditors = @ \ {editorId}]

\* buildService.emitCompileOnSaveChange(editor, enabled)
emitCompileOnSaveChange(S, editor, enabled) ==
  [S EXCEPT !.events = Append(@, [type |-> "did-change-compile-on-save",
                                  editor |-> editor, enabled |-> enabled])]

\* A setCompileOnSaveForEditor that reports a change whenever the editor shows
\* a .tex file.
setCompileOnSaveForEditor_AlwaysTrue(S, editor, enabled) ==
  IF editor = Null \/ ~EndsWithTex(editor) THEN [state |-> S, ret |-> "false"]
  ELSE [state |-> IF enabled THEN [S EXCEPT !.compileOnSaveEditors = @ \cup {editor}]
                  ELSE disableCompileOnSave(S, editor),
        ret |-> "true"]

\* service.setCompileOnSave(editor, enabled), that is
\* setCompileOnSaveForEditor(editor, enabled): the state it leaves and what it
\* returns.
setCompileOnSaveForEditor(S, editor, enabled) ==
  IF editor = Null \/ ~EndsWithTex(editor) THEN [state |-> S, ret |-> "false"]
  ELSE IF enabled = isCompileOnSaveEnabled(S, editor)
  THEN [state |-> S, ret |-> "false"]
  ELSE LET S1 == IF enabled
                 THEN [S EXCEPT !.compileOnSaveEditors = @ \cup {editor}]
                 ELSE disableCompileOnSave(S, editor)
           S2 == emitCompileOnSaveChange(S1, editor, enabled)
       IN [state |-> updateStatusBarVisibility(S2, [kind |-> "editor",
                                                    path |-> editor]),
           ret |-> "true"]

\* runCompilation(filePath): store the state, publish the start, spawn latexmk
\* and track the new process.
runCompilation(S, filePath) ==
  LET S1 == setBuildState(S, filePath, "building")
      S2 == IF isStatusBarActiveFor(S1, filePath) THEN setStatus(S1, "building") ELSE S1
      S3 == Registry(S2, startBuild(S2.buildingFiles, filePath, now))
      child == [file |-> filePath, startTime |-> now, killed |-> FALSE,
                pending |-> {"exit", "error"}]
      S4 == [S3 EXCEPT !.procs = Append(@, child)]
  IN [S4 EXCEPT !.buildProcesses =
        MapSet(@, filePath, [process |-> Len(S4.procs), startTime |-> now])]

\* The steps interrupt(), killAndClean(), killAndCleanFromStatusBar() and
\* interruptFile() share once a tracked process was found; only interruptFile
\* looks at isStatusBarActiveFor before it touches the status bar.
interruptTracked(S, filePath, barAlways) ==
  LET S1 == killProcess(S, S.buildProcesses.vals[filePath].process)
      S2 == [S1 EXCEPT !.buildProcesses = MapDelete(@, filePath, NoProcess)]
      S3 == setBuildState(S2, filePath, "idle")
      S4 == IF barAlways \/ isStatusBarActiveFor(S3, filePath)
            THEN setStatus(S3, "idle") ELSE S3
  IN Registry(S4, failBuild(S4.buildingFiles, filePath,
                            "Build interrupted by user", "", now))

\* The loop of interruptAll() and interruptAllBuilds() over the tracked
\* processes, in Map order.
RECURSIVE interruptEach(_, _)
interruptEach(S, keys) ==
  IF keys = <<>> THEN S
  ELSE LET filePath == Head(keys)
           S1 == killProcess(S, S.buildProcesses.vals[filePath].process)
           S2 == setBuildState(S1, filePath, "idle")
           S3 == Registry(S2, failBuild(S2.buildingFiles, filePath,
                                        "Build interrupted by user", "", now))
       IN interruptEach(S3, Tail(keys))

\* interruptAll() and interruptAllBuilds() once some process is tracked.
interruptAllTracked(S) ==
  LET S1 == interruptEach(S, S.buildProcesses.keys)
      S2 == [S1 EXCEPT !.buildProcesses = MapClear(@, NoProcess)]
  IN IF EndsWithTex(ActiveEditorPath) THEN setStatus(S2, "idle") ELSE S2

\* cleanFile(filePath); `cleaned` is false when it returns early (no clean
\* patterns configured, or the directory cannot be read).
cleanFile(S, filePath, cleaned) ==
  IF cleaned THEN setStatus(setBuildState(S, filePath, "idle"), "idle") ELSE S

\* killAndClean() for the file of the active editor, and the same steps of
\* killAndCleanFromStatusBar() for the tracked file.
killAndCleanFile(S, filePath, cleaned) ==
  LET S1 == IF checkBuildStatus(S, filePath)
            THEN interruptTracked(S, filePath, TRUE) ELSE S
  IN cleanFile(S1, filePath, cleaned)

\* waitForBuildAndOpen(filePath, pdfPath): the request waits for the build
\* whose process is tracked for the file.
waitForBuildAndOpen(S, filePath) ==
  [S EXCEPT !.pdf = Append(@, [file |-> filePath,
                               pid |-> S.buildProcesses.vals[filePath].process,
                               status |-> "waiting", finishedBy |-> 0])]

\* _openPdfDirect(pdfPath)
openPdfDirect(S, filePath) ==
  [S EXCEPT !.pdf = Append(@, [file |-> filePath, pid |-> 0, status |-> "opened",
                               finishedBy |-> 0])]

\* openPdf() for the file of the active editor; `exists` is
\* fs.existsSync(pdfPath).
openPdf(S, filePath, exists) ==
  IF checkBuildStatus(S, filePath) THEN waitForBuildAndOpen(S, filePath)
  ELSE IF ~exists THEN S
  ELSE openPdfDirect(S, filePath)

\* parseLogFile(filePath): the events it publishes.
parseLogFile(filePath, log) ==
  CASE log.kind = "missing" -> updateMessages(filePath, <<>>)
    [] log.kind = "parsed" -> updateMessages(filePath, log.messages)
    [] OTHER -> <<>>

RECURSIVE FilterErrors(_)
FilterErrors(messages) ==
  IF messages = <<>> THEN <<>>
  ELSE (IF Head(messages).severity = "error" THEN <<Head(messages)>> ELSE <<>>)
       \o FilterErrors(Tail(messages))

\* The diagnostics of a failed build without the fallback diagnostic.
failureMessages_NoFallback(log, code) ==
  FilterErrors(IF log.kind = "parsed" THEN log.messages ELSE <<>>)

\* The diagnostics of a failed build: the log's errors, or the fallback.
failureMessages(log, code) ==
  LET parsedMessages == IF log.kind = "parsed" THEN log.messages ELSE <<>>
      hasErrors == \E i \in 1..Len(parsedMessages) : parsedMessages[i].severity = "error"
  IN IF hasErrors THEN FilterErrors(parsedMessages)
     ELSE <<Diag("error", CriticalExcerpt(code), 0)>>

\* childProcess.on("exit", (code, signal) => ...) of the process pid.
onExit(S, pid, code, signal, log, stdout, stderr) ==
  LET filePath == S.procs[pid].file
      elapsedTime == now - S.procs[pid].startTime
      S1 == [S EXCEPT !.procs[pid] = Gone,
                      !.buildProcesses = MapDelete(@, filePath, NoProcess)]
  IN IF signal THEN S1
     ELSE IF code = 0
     THEN LET S2 == setBuildState(S1, filePath, "success")
              S3 == IF isStatusBarActiveFor(S2, filePath)
                    THEN setStatus(S2, "success") ELSE S2
              S4 == [S3 EXCEPT !.events = @ \o parseLogFile(filePath, log)]
          IN Registry(S4, finishBuild(S4.buildingFiles, filePath, stdout,
                                      elapsedTime, now))
     ELSE LET S2 == setBuildState(S1, filePath, "error")
              S3 == IF isStatusBarActiveFor(S2, filePath)
                    THEN setStatus(S2, "error") ELSE S2
              S4 == [S3 EXCEPT !.events =
                       @ \o updateMessages(filePath, failureMessages(log, code))]
          IN Registry(S4, failBuild(S4.buildingFiles, filePath,
                                    ExitCodeSummary(code),
                                    IF stderr # "" THEN stderr ELSE stdout, now))

\* childProcess.on("error", (error) => ...) of the process pid; `exits` tells
\* whether the process can still report an exit afterwards.
onError(S, pid, exits) ==
  LET filePath == S.procs[pid].file
      S1 == [S EXCEPT !.procs[pid] = IF exits THEN [@ EXCEPT !.pending = {"exit"}]
                                         ELSE Gone,
                      !.buildProcesses = MapDelete(@, filePath, NoProcess)]
      S2 == setBuildState(S1, filePath, "error")
      S3 == IF isStatusBarActiveFor(S2, filePath) THEN setStatus(S2, "error") ELSE S2
  IN Registry(S3, failBuild(S3.buildingFiles, filePath, "latexmk not found",
                            "spawn latexmk ENOENT", now))

\* ------------------------------------------------------- the log parser
\* LogParser reads the log line by line with regular expressions.  A line is
\* modelled as its indentation (the number of leading blanks) and its words
\* (the maximal runs of non-blank characters); a text is a sequence of words,
\* read with single blanks between them.  A word is its leading decimal
\* digits and the rest of its characters.  What a regular expression asks of
\* the characters inside a word is answered by the tables below for the words
\* of the vocabulary.

W(s) == [d |-> <<>>, s |-> s]
D(d, s) == [d |-> d, s |-> s]

\* parseInt(digits, 10)
RECURSIVE Val(_)
Val(d) == IF d = <<>> THEN 0 ELSE 10 * Val(SubSeq(d, 1, Len(d) - 1)) + d[Len(d)]

DigitChar(n) ==
  CASE n = 0 -> "0" [] n = 1 -> "1" [] n = 2 -> "2" [] n = 3 -> "3" [] n = 4 -> "4"
    [] n = 5 -> "5" [] n = 6 -> "6" [] n = 7 -> "7" [] n = 8 -> "8" [] n = 9 -> "9"

\* The characters of a word.
RECURSIVE DigitsStr(_)
DigitsStr(d) == IF d = <<>> THEN "" ELSE DigitChar(Head(d)) \o DigitsStr(Tail(d))
WordStr(w) == DigitsStr(w.d) \o w.s

\* A line of the log.
LogLine(indent, words) == [indent |-> indent, words |-> words]

\* line === ""
IsEmptyLine(line) == line.indent = 0 /\ line.words = <<>>

\* Words that begin with one of !, LaTeX, Package, Class, Output, Over, Under.
BoxHeads == {"Overfull \\hbox (1.0pt too wide)", "Underfull \\vbox (badness 10000)"}
MessageStarts == {"!", "LaTeX", "Package", "Class", "Output"} \cup BoxHeads

\* /^(!|LaTeX|Package|Class|Output|Over|Under)/
StartsNewMessage(line) ==
  /\ line.indent = 0 /\ line.words # <<>>
  /\ line.words[1].d = <<>> /\ line.words[1].s \in MessageStarts

\* OUTPUT_PATTERN = /^Output\swritten\son\s(.*)\s\(.*\)\.$/
OpensParen == {"(1"}
ClosesParenDot == {"page)."}
OutputMatch(line) ==
  /\ line.indent = 0 /\ Len(line.words) >= 5
  /\ SubSeq(line.words, 1, 3) = <<W("Output"), W("written"), W("on")>>
  /\ \E k \in 5..Len(line.words) : line.words[k].s \in OpensParen /\ line.words[k].d = <<>>
  /\ line.words[Len(line.words)].s \in ClosesParenDot

NoMatch == [matched |-> FALSE]

\* FATAL_ERROR_PATTERN = /^! (.+)$/ : match[1]
FatalMatch(line) ==
  IF line.indent = 0 /\ Len(line.words) >= 2 /\ line.words[1] = W("!")
  THEN [matched |-> TRUE, text |-> Tail(line.words)]
  ELSE NoMatch

\* The words <stem>.tex:<L>: , by what follows their leading digits: the stem
\* and L.
TexLoc ==
  [s \in {".tex:3:", "ch.tex:7:", "ch.tex:0:"} |->
     CASE s = ".tex:3:" -> [stem |-> "", line |-> <<3>>]
       [] s = "ch.tex:7:" -> [stem |-> "ch", line |-> <<7>>]
       [] s = "ch.tex:0:" -> [stem |-> "ch", line |-> <<0>>]]

\* FILE_LINE_ERROR_PATTERN = /^(.+\.tex):(\d+): (.+)$/ : the (greedy) last word
\* <stem>.tex:<L>: that has text after it and characters before its ".tex".
FileLineAt(line, k) ==
  /\ k < Len(line.words)
  /\ line.words[k].s \in DOMAIN TexLoc
  /\ \/ k > 1 \/ line.indent > 0 \/ line.words[k].d # <<>>
     \/ TexLoc[line.words[k].s].stem # ""

RECURSIVE JoinWords(_)
JoinWords(text) ==
  IF text = <<>> THEN ""
  ELSE IF Len(text) = 1 THEN WordStr(text[1])
  ELSE WordStr(text[1]) \o " " \o JoinWords(Tail(text))

RECURSIVE Blanks(_)
Blanks(n) == IF n = 0 THEN "" ELSE " " \o Blanks(n - 1)

FileLineMatch(line) ==
  LET ks == {k \in 1..Len(line.words) : FileLineAt(line, k)}
  IN IF ks = {} THEN NoMatch
     ELSE LET k == CHOOSE x \in ks : \A y \in ks : y <= x
              w == line.words[k]
              before == SubSeq(line.words, 1, k - 1)
          IN [matched |-> TRUE,
              filePath |-> Blanks(line.indent)
                           \o (IF before = <<>> THEN "" ELSE JoinWords(before) \o " ")
                           \o DigitsStr(w.d) \o TexLoc[w.s].stem \o ".tex",
              lineNumber |-> Val(TexLoc[w.s].line),
              text |-> SubSeq(line.words, k + 1, Len(line.words))]

\* The words <digits>--<digits>, by what follows their leading digits.
DashNumber == [s \in {"--7", "--9", "--3"} |->
                 CASE s = "--7" -> <<7>> [] s = "--9" -> <<9>> [] s = "--3" -> <<3>>]

\* BOX_PATTERN = /^((?:Over|Under)full \\[hvd]box \([^)]*\)) (?:in paragraph |in
\* alignment )?at lines? (\d+)(?:--(\d+))?/ ; the head up to its ")" is one word
\* of the vocabulary.
BoxMatch(line) ==
  LET ws == line.words
      skip == IF Len(ws) >= 3 /\ ws[2] = W("in")
                 /\ ws[3] \in {W("paragraph"), W("alignment")} THEN 2 ELSE 0
  IN IF /\ line.indent = 0 /\ Len(ws) >= skip + 4
        /\ ws[1].d = <<>> /\ ws[1].s \in BoxHeads
        /\ ws[skip + 2] = W("at")
        /\ ws[skip + 3] \in {W("line"), W("lines")}
        /\ ws[skip + 4].d # <<>>
     THEN [matched |-> TRUE, text |-> <<ws[1]>>,
           startLine |-> Val(ws[skip + 4].d),
           endLine |-> IF ws[skip + 4].s \in DOMAIN DashNumber
                       THEN Val(DashNumber[ws[skip + 4].s])
                       ELSE Val(ws[skip + 4].d)]
     ELSE NoMatch

\* /^(LaTeX|Package|Class)(?:\s+(\S+))?\s+<tag>\s*(.*)$/ for the tag "Warning:"
\* or "Info:": the optional group takes the second word when the tag is the
\* third word, else the tag is the second word and the group is absent.
TaggedMatch(line, tag) ==
  LET ws == line.words
  IN IF line.indent # 0 \/ Len(ws) < 2 \/ ws[1] \notin {W("LaTeX"), W("Package"), W("Class")}
     THEN NoMatch
     ELSE IF Len(ws) >= 3 /\ ws[3] = W(tag)
     THEN [matched |-> TRUE, origin |-> ws[1], packageName |-> ws[2],
           text |-> SubSeq(ws, 4, Len(ws))]
     ELSE IF ws[2] = W(tag)
     THEN [matched |-> TRUE, origin |-> ws[1], packageName |-> W(Null),
           text |-> SubSeq(ws, 3, Len(ws))]
     ELSE NoMatch

\* WARNING_PATTERN
WarningMatch(line) == TaggedMatch(line, "Warning:")

\* INFO_PATTERN
InfoMatch(line) == TaggedMatch(line, "Info:")

\* The words l.<digits>, and their digits.
LineRefs == [s \in {"l.12", "l.0"} |-> IF s = "l.12" THEN <<1, 2>> ELSE <<0>>]

\* LINE_CONTEXT_PATTERN = /^l\.(\d+)\s(.*)$/ : the line number.
LineContextMatch(line) ==
  IF /\ line.indent = 0 /\ Len(line.words) >= 2
     /\ line.words[1].d = <<>> /\ line.words[1].s \in DOMAIN LineRefs
  THEN [matched |-> TRUE, lineNumber |-> Val(LineRefs[line.words[1].s]),
        context |-> Tail(line.words)]
  ELSE NoMatch

\* /^\s*<.*>$/ or /^\s*\.\.\.$/ : lines parseFatalError leaves out of the text.
AngleLines == {<<W("<recently"), W("read>")>>, <<W("<*>")>>}
LooksLikeSourceContext(line) ==
  line.words \in AngleLines \/ line.words = <<W("...")>>

\* /^(\s{15,})(.+)$/ : match[2].trim()
\* (sixteen blanks match too: the text is then empty)
IndentedMatch(line) ==
  IF \/ line.indent >= 15 /\ line.words # <<>>
     \/ line.indent >= 16
  THEN [matched |-> TRUE, text |-> line.words] ELSE NoMatch

\* Package names with which `^\\(${packageName}\\)\\s+(.+)$` is no regular
\* expression: new RegExp throws a SyntaxError.
BadPatternNames == {"foo(", "a["}

\* new RegExp(`^\\(${packageName}\\)\\s+(.+)$`) and line.match(pkgPattern), for
\* a package name without pattern characters.
PackageContinuationMatch(line, packageName) ==
  IF /\ line.indent = 0 /\ Len(line.words) >= 2
     /\ WordStr(line.words[1]) = "(" \o WordStr(packageName) \o ")"
  THEN [matched |-> TRUE, text |-> Tail(line.words)] ELSE NoMatch

\* Words that end in "line".
EndsInLine == {"line"}

\* /line\s+\d+$/ on a text.
EndsWithLineNumber(text) ==
  /\ Len(text) >= 2
  /\ text[Len(text)].d # <<>> /\ text[Len(text)].s = ""
  /\ text[Len(text) - 1].d = <<>> /\ text[Len(text) - 1].s \in EndsInLine

\* /line\s+\d+$/ on a line.
LineEndsWithLineNumber(line) == EndsWithLineNumber(line.words)

\* /^\d+/ on a text, and on a line.
StartsWithDigit(text) == text # <<>> /\ text[1].d # <<>>
LineStartsWithDigit(line) == line.indent = 0 /\ StartsWithDigit(line.words)

\* What follows the leading digits of a word: whether it starts with "." and
\* what comes after that.
AfterDigits ==
  [s \in {"", ".", ".tex:3:", "--7", "--9", "--3"} |->
     CASE s = "" -> [dot |-> FALSE, tail |-> ""]
       [] s = "." -> [dot |-> TRUE, tail |-> ""]
       [] s = ".tex:3:" -> [dot |-> TRUE, tail |-> "tex:3:"]
       [] OTHER -> [dot |-> FALSE, tail |-> s]]

\* /^(\d+\.?)\s*(.*)/ on a line that starts with digits: match[1], and match[2]
\* trimmed.
DigitMatch(line) ==
  LET w == line.words[1]
      a == AfterDigits[w.s]
  IN [digits |-> D(w.d, IF a.dot THEN "." ELSE ""),
      rest |-> (IF a.tail = "" THEN <<>> ELSE <<W(a.tail)>>) \o Tail(line.words)]

\* INPUT_LINE_PATTERN = /on input line (\d+)/ on a text: the first match.
InputLineAt(text, k) ==
  /\ k + 3 <= Len(text)
  /\ SubSeq(text, k, k + 2) = <<W("on"), W("input"), W("line")>>
  /\ text[k + 3].d # <<>>

InputLineMatch(text) ==
  LET ks == {k \in 1..Len(text) : InputLineAt(text, k)}
  IN IF ks = {} THEN NoMatch
     ELSE LET k == CHOOSE x \in ks : \A y \in ks : x <= y
          IN [matched |-> TRUE, lineNumber |-> Val(text[k + 3].d)]

\* /^(The |This |You |See |Type |That makes )/ on the text of a file:line error.
IsHelpText(text) ==
  \/ Len(text) >= 2 /\ text[1] \in {W("The"), W("This"), W("You"), W("See"), W("Type")}
  \/ Len(text) >= 3 /\ text[1] = W("That") /\ text[2] = W("makes")

\* text + more, without a blank between: the last word of text and the first
\* of more become one word.  The parser joins this way only after digits.
AppendNoSpace(text, more) ==
  IF text = <<>> THEN more
  ELSE IF more = <<>> THEN text
  ELSE LET l == text[Len(text)]
           r == more[1]
           joined == CASE l.s = "" -> D(l.d \o r.d, r.s)
                       [] l.s # "" /\ r.d = <<>> -> D(l.d, l.s \o r.s)
       IN SubSeq(text, 1, Len(text) - 1) \o <<joined>> \o Tail(more)

\* ---- paths

\* The documents parse is called for, and path.dirname of each.
RootPaths == {"/p/main.tex", "/q/other.tex"}
Dirname(texFilePath) == IF texFilePath = "/p/main.tex" THEN "/p" ELSE "/q"

\* path.resolve(projectPath, filePath): an absolute path stays, a leading "./"
\* is dropped.
AbsolutePaths == {"/tex/article.cls"}
WithoutDotSlash(filePath) ==
  CASE filePath = "./chap.tex" -> "chap.tex"
    [] filePath = "./sec.aux" -> "sec.aux"
    [] OTHER -> filePath
Resolve(projectPath, filePath) ==
  IF filePath \in AbsolutePaths THEN filePath
  ELSE projectPath \o "/" \o WithoutDotSlash(filePath)

\* ---- the file stack

\* The parentheses and brackets inside the words of the vocabulary: a word is
\* cut into "(" (open), ")" (close), "[" or "]" (stop) and the text between.
Piece(k, s) == [k |-> k, s |-> s]
Pieces(w) ==
  CASE w = W("(./chap.tex") -> <<Piece("open", ""), Piece("text", "./chap.tex")>>
    [] w = W("(/tex/article.cls") ->
         <<Piece("open", ""), Piece("text", "/tex/article.cls")>>
    [] w = W("(./sec.aux)") ->
         <<Piece("open", ""), Piece("text", "./sec.aux"), Piece("close", "")>>
    [] w = W("(see") -> <<Piece("open", ""), Piece("text", "see")>>
    [] w = W("note)") -> <<Piece("text", "note"), Piece("close", "")>>
    [] w = W(")") -> <<Piece("close", "")>>
    [] w = W("[1]") -> <<Piece("stop", ""), Piece("text", "1"), Piece("stop", "")>>
    [] w = W("(1") -> <<Piece("open", ""), Piece("text", "1")>>
    [] w = W("page).") ->
         <<Piece("text", "page"), Piece("close", ""), Piece("text", ".")>>
    [] w = W("Overfull \\hbox (1.0pt too wide)") ->
         <<Piece("text", "Overfull \\hbox"), Piece("blank", ""), Piece("open", ""),
           Piece("text", "1.0pt too wide"), Piece("close", "")>>
    [] w = W("Underfull \\vbox (badness 10000)") ->
         <<Piece("text", "Underfull \\vbox"), Piece("blank", ""), Piece("open", ""),
           Piece("text", "badness 10000"), Piece("close", "")>>
    [] w = W("foo(") -> <<Piece("text", "foo"), Piece("open", "")>>
    [] w = W("(foo)") ->
         <<Piece("open", ""), Piece("text", "foo"), Piece("close", "")>>
    [] OTHER -> <<Piece("text", WordStr(w))>>

\* Texts that hold a "." character: cleanPath.includes(".")
Dotted == {"./chap.tex", "/tex/article.cls", "./sec.aux", "1.0pt too wide", ".", "..."}
         \cup {"12.tex:3:", "ch.tex:7:", "ch.tex:0:", "21.", "l.12", "l.0",
               "sequence.", "inserted."}

\* The pieces of a line, with a blank piece between two words.
RECURSIVE LinePieces(_)
LinePieces(words) ==
  IF words = <<>> THEN <<>>
  ELSE Pieces(Head(words))
       \o (IF Len(words) > 1 THEN <<Piece("blank", "")>> ELSE <<>>)
       \o LinePieces(Tail(words))

\* line.match(INPUT_FILE_PATTERN), INPUT_FILE_PATTERN = /(\([^()[\]]+|\))/g :
\* the tokens ")" and "(" with the characters up to the next parenthesis or
\* bracket.  A token is [pop |-> TRUE] or the texts after its "(" ; `open` is
\* whether a "(" is being read and `body` what follows it so far, `any` whether
\* a character follows it.
RECURSIVE Tokens(_, _, _, _)
Tokens(pieces, open, body, any) ==
  LET done == IF open /\ any THEN <<[pop |-> FALSE, body |-> body]>> ELSE <<>>
  IN IF pieces = <<>> THEN done
     ELSE LET x == Head(pieces)
              rest == Tail(pieces)
          IN CASE x.k = "open" -> done \o Tokens(rest, TRUE, <<>>, FALSE)
               [] x.k = "close" ->
                    done \o <<[pop |-> TRUE, body |-> <<>>]>>
                    \o Tokens(rest, FALSE, <<>>, FALSE)
               [] x.k = "stop" -> done \o Tokens(rest, FALSE, <<>>, FALSE)
               [] x.k = "blank" -> Tokens(rest, open, body, open)
               [] x.k = "text" ->
                    Tokens(rest, open, IF open THEN Append(body, x.s) ELSE body, open)

RECURSIVE JoinStrings(_)
JoinStrings(body) ==
  IF body = <<>> THEN ""
  ELSE IF Len(body) = 1 THEN body[1]
  ELSE body[1] \o " " \o JoinStrings(Tail(body))

\* updateFileStack without the guard of its shift: ")" always pops.
ApplyToken_PopsAlways(sourcePaths, projectPath, token) ==
  IF token.pop
  THEN IF sourcePaths = <<>> THEN <<>> ELSE Tail(sourcePaths)
  ELSE IF \E i \in 1..Len(token.body) : token.body[i] \in Dotted
  THEN <<Resolve(projectPath, JoinStrings(token.body))>> \o sourcePaths
  ELSE sourcePaths

\* One token of updateFileStack: ")" pops unless one path is left; a token
\* whose trimmed text holds a "." is resolved and pushed.  The top of the
\* stack is its first element.
ApplyToken(sourcePaths, projectPath, token) ==
  IF token.pop
  THEN IF Len(sourcePaths) > 1 THEN Tail(sourcePaths) ELSE sourcePaths
  ELSE IF \E i \in 1..Len(token.body) : token.body[i] \in Dotted
  THEN <<Resolve(projectPath, JoinStrings(token.body))>> \o sourcePaths
  ELSE sourcePaths

RECURSIVE ApplyTokens(_, _, _)
ApplyTokens(sourcePaths, projectPath, tokens) ==
  IF tokens = <<>> THEN sourcePaths
  ELSE ApplyTokens(ApplyToken(sourcePaths, projectPath, Head(tokens)),
                   projectPath, Tail(tokens))

\* updateFileStack(line)
updateFileStack(P, line) ==
  [P EXCEPT !.sourcePaths =
     ApplyTokens(@, P.projectPath,
                 Tokens(LinePieces(line.words), FALSE, <<>>, FALSE))]

\* getCurrentFile()
getCurrentFile(P) ==
  IF Len(P.sourcePaths) > 0 THEN P.sourcePaths[1] ELSE P.texFilePath

\* ---- the recognizers

NoMessage == [severity |-> Null]

\* Number.MAX_SAFE_INTEGER, the end column of every diagnostic; the model only
\* compares it with column 0.
MAX_SAFE_INTEGER == 2147483647

\* A diagnostic: the fields of a linter message that the parser's own logic
\* and its callers read.
Message(severity, excerpt, fullPath, startRow, endRow, logFrom, logTo) ==
  [severity |-> severity, excerpt |-> excerpt, fullPath |-> fullPath,
   start |-> [row |-> startRow, column |-> 0],
   end |-> [row |-> endRow, column |-> MAX_SAFE_INTEGER],
   logRange |-> <<logFrom, logTo>>]

\* lines[index] with the index counted from 0.
LineAt(lines, index) == lines[index + 1]

\* collectContinuationLines(lines, startIndex, packageName, initialText): the
\* loop from line `index` on; prevEndsWithLine is /line\s+\d+$/.test(prevText)
\* and `result` the parts collected so far, joined.
RECURSIVE collectFrom(_, _, _, _, _)
collectFrom(lines, index, packageName, prevEndsWithLine, result) ==
  IF index >= Len(lines)
  THEN [text |-> result, nextIndex |-> index, threw |-> FALSE]
  ELSE LET line == LineAt(lines, index)
           indented == IndentedMatch(line)
           pkg == PackageContinuationMatch(line, packageName)
           add(text) == IF result = <<>> THEN text ELSE result \o text
       IN IF indented.matched
          THEN collectFrom(lines, index + 1, packageName,
                           EndsWithLineNumber(indented.text), add(indented.text))
          ELSE IF packageName # W(Null) /\ WordStr(packageName) \in BadPatternNames
          THEN [text |-> result, nextIndex |-> index, threw |-> TRUE]
          ELSE IF packageName # W(Null) /\ pkg.matched
          THEN collectFrom(lines, index + 1, packageName,
                           EndsWithLineNumber(pkg.text), add(pkg.text))
          ELSE IF prevEndsWithLine /\ LineStartsWithDigit(line)
          THEN LET m == DigitMatch(line)
                   joined == AppendNoSpace(result, <<m.digits>>) \o m.rest
               IN collectFrom(lines, index + 1, packageName,
                              LineEndsWithLineNumber(line), joined)
          ELSE [text |-> result, nextIndex |-> index, threw |-> FALSE]

collectContinuationLines(lines, startIndex, packageName, initialText) ==
  collectFrom(lines, startIndex, packageName, EndsWithLineNumber(initialText), <<>>)

\* A row that is 0 whatever the line number.
RowOf_Zero(lineNumber) == 0

\* The rows of a diagnostic whose line number may be missing (null or 0).
RowOf(lineNumber) == IF lineNumber # 0 THEN lineNumber - 1 ELSE 0

\* parseFatalError: the loop from line `nextIndex` on.
RECURSIVE fatalFrom(_, _, _)
fatalFrom(lines, nextIndex, messageText) ==
  IF nextIndex >= Len(lines)
  THEN [text |-> messageText, lineNumber |-> 0, nextIndex |-> nextIndex]
  ELSE LET line == LineAt(lines, nextIndex)
           lineMatch == LineContextMatch(line)
       IN IF lineMatch.matched
          THEN [text |-> messageText, lineNumber |-> lineMatch.lineNumber,
                nextIndex |-> nextIndex + 1]
          ELSE IF StartsNewMessage(line) \/ FileLineMatch(line).matched
                  \/ IsEmptyLine(line)
          THEN [text |-> messageText, lineNumber |-> 0, nextIndex |-> nextIndex]
          ELSE fatalFrom(lines, nextIndex + 1,
                         IF line.words # <<>> /\ ~LooksLikeSourceContext(line)
                         THEN messageText \o line.words ELSE messageText)

parseFatalError(P, match, lines, lineIndex) ==
  LET r == fatalFrom(lines, lineIndex + 1, match.text)
  IN [message |-> Message("error", r.text, getCurrentFile(P), RowOf(r.lineNumber),
                          RowOf(r.lineNumber), lineIndex, r.nextIndex - 1),
      nextIndex |-> r.nextIndex, threw |-> FALSE]

\* parseFileLineError: the loop from line `nextIndex` on.
RECURSIVE fileLineFrom(_, _, _)
fileLineFrom(lines, nextIndex, messageText) ==
  IF nextIndex >= Len(lines) THEN [text |-> messageText, nextIndex |-> nextIndex]
  ELSE LET line == LineAt(lines, nextIndex)
       IN IF IsEmptyLine(line) \/ StartsNewMessage(line) \/ FileLineMatch(line).matched
          THEN [text |-> messageText, nextIndex |-> nextIndex]
          ELSE IF LineContextMatch(line).matched
          THEN [text |-> messageText, nextIndex |-> nextIndex + 1]
          ELSE IF line.indent > 0 /\ line.words # <<>>
          THEN fileLineFrom(lines, nextIndex + 1, messageText \o line.words)
          ELSE [text |-> messageText, nextIndex |-> nextIndex]

\* A parseFileLineError that hands back the index of its own line.
parseFileLineError_NoAdvance(P, match, lines, lineIndex) ==
  [message |-> NoMessage, nextIndex |-> lineIndex, threw |-> FALSE]

\* A parseFileLineError without its "Skip help messages" test.
parseFileLineError_KeepsHelp(P, match, lines, lineIndex) ==
  LET r == fileLineFrom(lines, lineIndex + 1, match.text)
  IN [message |-> Message("error", r.text, Resolve(P.projectPath, match.filePath),
                          match.lineNumber - 1, match.lineNumber - 1,
                          lineIndex, r.nextIndex - 1),
      nextIndex |-> r.nextIndex, threw |-> FALSE]

parseFileLineError(P, match, lines, lineIndex) ==
  LET r == fileLineFrom(lines, lineIndex + 1, match.text)
  IN [message |->
        IF IsHelpText(r.text) THEN NoMessage
        ELSE Message("error", r.text, Resolve(P.projectPath, match.filePath),
                     match.lineNumber - 1, match.lineNumber - 1,
                     lineIndex, r.nextIndex - 1),
      nextIndex |-> r.nextIndex, threw |-> FALSE]

\* A parseBoxWarning whose diagnostic ends on the row it starts on.
parseBoxWarning_OneRow(P, match, lineIndex) ==
  Message("info", match.text, getCurrentFile(P), match.startLine - 1,
          match.startLine - 1, lineIndex, lineIndex)

parseBoxWarning(P, match, lineIndex) ==
  Message("info", match.text, getCurrentFile(P), match.startLine - 1,
          match.endLine - 1, lineIndex, lineIndex)

\* parseWarning and parseInfo, which differ in the severity only.
parseTagged(P, match, lines, lineIndex, severity) ==
  LET continuation ==
        collectContinuationLines(lines, lineIndex + 1, match.packageName, match.text)
      messageText ==
        IF continuation.text = <<>> THEN match.text
        ELSE IF EndsWithLineNumber(match.text) /\ StartsWithDigit(continuation.text)
        THEN AppendNoSpace(match.text, continuation.text)
        ELSE match.text \o continuation.text
      lineMatch == InputLineMatch(messageText)
      lineNumber == IF lineMatch.matched THEN lineMatch.lineNumber ELSE 0
      originText ==
        IF match.packageName # W(Null)
        THEN <<match.origin, D(match.packageName.d, match.packageName.s \o ":")>>
        ELSE <<W(match.origin.s \o ":")>>
      excerpt == IF match.packageName = W(Null) /\ match.origin = W("LaTeX")
                 THEN messageText
                 ELSE originText \o (IF messageText = <<>> THEN <<W("")>>
                                     ELSE messageText)
  IN [message |-> Message(severity, excerpt, getCurrentFile(P), RowOf(lineNumber),
                          RowOf(lineNumber), lineIndex, continuation.nextIndex - 1),
      nextIndex |-> continuation.nextIndex, threw |-> continuation.threw]

parseWarning(P, match, lines, lineIndex) ==
  parseTagged(P, match, lines, lineIndex, "warning")

parseInfo(P, match, lines, lineIndex) ==
  parseTagged(P, match, lines, lineIndex, "info")

\* A duplicate test that compares the severity too.
IsDuplicate_WithSeverity(P, message) ==
  /\ P.lastMessage # NoMessage
  /\ P.lastMessage.fullPath = message.fullPath
  /\ P.lastMessage.start.row = message.start.row
  /\ P.lastMessage.excerpt = message.excerpt
  /\ P.lastMessage.severity = message.severity

\* addMessage(message): whether the message repeats the last one appended.
IsDuplicate(P, message) ==
  /\ P.lastMessage # NoMessage
  /\ P.lastMessage.fullPath = message.fullPath
  /\ P.lastMessage.start.row = message.start.row
  /\ P.lastMessage.excerpt = message.excerpt

\* An addMessage that puts the message at the front of the list.
addMessage_AtFront(P, message) ==
  IF IsDuplicate(P, message) THEN P
  ELSE [P EXCEPT !.messages = <<message>> \o @, !.lastMessage = message]

addMessage(P, message) ==
  IF IsDuplicate(P, message) THEN P
  ELSE [P EXCEPT !.messages = Append(@, message), !.lastMessage = message]

\* ---- parse(logContent, texFilePath), one iteration of its loop at a time

\* new LogParser()
NewLogParser ==
  [messages |-> <<>>, sourcePaths |-> <<>>, projectPath |-> Null,
   texFilePath |-> Null, outputFilePath |-> Null, lastMessage |-> NoMessage,
   lines |-> <<>>, lineIndex |-> 0, outcome |-> "idle", trace |-> <<>>,
   inherited |-> NoMessage]

\* A head of parse that forgets to reset lastMessage.
parseBegin_KeepsLastMessage(P, lines, texFilePath) ==
  [messages |-> <<>>, sourcePaths |-> <<texFilePath>>,
   projectPath |-> Dirname(texFilePath), texFilePath |-> texFilePath,
   outputFilePath |-> Null, lastMessage |-> P.lastMessage,
   lines |-> lines, lineIndex |-> 0, outcome |-> "running", trace |-> <<>>,
   inherited |-> P.lastMessage]

\* The head of parse: the instance is reset and the text split into lines.
\* `inherited` remembers the lastMessage the earlier call had left behind.
parseBegin(P, lines, texFilePath) ==
  [messages |-> <<>>, sourcePaths |-> <<texFilePath>>,
   projectPath |-> Dirname(texFilePath), texFilePath |-> texFilePath,
   outputFilePath |-> Null, lastMessage |-> NoMessage,
   lines |-> lines, lineIndex |-> 0, outcome |-> "running", trace |-> <<>>,
   inherited |-> P.lastMessage]

\* What one iteration of the loop did: the line it looked at, the recognizer
\* that took it, the diagnostic it built, what became of it, and the next line
\* index.
Iteration(lineIndex, by, message, result, nextIndex) ==
  [line |-> lineIndex, by |-> by, built |-> message, result |-> result,
   next |-> nextIndex]

\* A recognizer returned `r`: the message is added, or the exception leaves parse.
Recognized(P, by, r) ==
  LET result == IF r.threw THEN "threw"
                ELSE IF r.message = NoMessage THEN "suppressed"
                ELSE IF IsDuplicate(P, r.message) THEN "duplicate" ELSE "added"
      P1 == IF r.threw \/ r.message = NoMessage THEN P ELSE addMessage(P, r.message)
  IN [P1 EXCEPT !.lineIndex = IF r.threw THEN @ ELSE r.nextIndex,
                !.outcome = IF r.threw THEN "threw" ELSE @,
                !.trace = Append(@, Iteration(P.lineIndex, by,
                                              IF r.threw THEN NoMessage ELSE r.message,
                                              result, r.nextIndex))]

\* The last word of the output pattern's (.*): the one before the last "(".
OutputPath(line) ==
  LET ks == {k \in 5..Len(line.words) :
               line.words[k].s \in OpensParen /\ line.words[k].d = <<>>}
      k == CHOOSE x \in ks : \A y \in ks : y <= x
  IN JoinWords(SubSeq(line.words, 4, k - 1))

\* An iteration that tries the file:line pattern before the fatal one.
parseStep_FileLineFirst(P) ==
  LET lineIndex == P.lineIndex
      line == LineAt(P.lines, lineIndex)
      skip(by, Q) ==
        [Q EXCEPT !.lineIndex = lineIndex + 1,
                  !.trace = Append(@, Iteration(lineIndex, by, NoMessage, "none",
                                                lineIndex + 1))]
  IN IF lineIndex = 0 THEN skip("first", P)
     ELSE IF OutputMatch(line)
     THEN skip("output",
               [P EXCEPT !.outputFilePath = Resolve(P.projectPath, OutputPath(line))])
     ELSE IF FileLineMatch(line).matched
     THEN Recognized(P, "fileLine",
                     parseFileLineError(P, FileLineMatch(line), P.lines, lineIndex))
     ELSE IF FatalMatch(line).matched
     THEN Recognized(P, "fatal", parseFatalError(P, FatalMatch(line), P.lines, lineIndex))
     ELSE IF BoxMatch(line).matched
     THEN Recognized(P, "box",
                     [message |-> parseBoxWarning(P, BoxMatch(line), lineIndex),
                      nextIndex |-> lineIndex + 1, threw |-> FALSE])
     ELSE IF WarningMatch(line).matched
     THEN Recognized(P, "warning",
                     parseWarning(P, WarningMatch(line), P.lines, lineIndex))
     ELSE IF InfoMatch(line).matched
     THEN Recognized(P, "info", parseInfo(P, InfoMatch(line), P.lines, lineIndex))
     ELSE skip("stack", updateFileStack(P, line))

\* One iteration of the while loop of parse.
parseStep(P) ==
  LET lineIndex == P.lineIndex
      line == LineAt(P.lines, lineIndex)
      skip(by, Q) ==
        [Q EXCEPT !.lineIndex = lineIndex + 1,
                  !.trace = Append(@, Iteration(lineIndex, by, NoMessage, "none",
                                                lineIndex + 1))]
  IN IF lineIndex = 0 THEN skip("first", P)
     ELSE IF OutputMatch(line)
     THEN skip("output",
               [P EXCEPT !.outputFilePath = Resolve(P.projectPath, OutputPath(line))])
     ELSE IF FatalMatch(line).matched
     THEN Recognized(P, "fatal", parseFatalError(P, FatalMatch(line), P.lines, lineIndex))
     ELSE IF FileLineMatch(line).matched
     THEN Recognized(P, "fileLine",
                     parseFileLineError(P, FileLineMatch(line), P.lines, lineIndex))
     ELSE IF BoxMatch(line).matched
     THEN Recognized(P, "box",
                     [message |-> parseBoxWarning(P, BoxMatch(line), lineIndex),
                      nextIndex |-> lineIndex + 1, threw |-> FALSE])
     ELSE IF WarningMatch(line).matched
     THEN Recognized(P, "warning",
                     parseWarning(P, WarningMatch(line), P.lines, lineIndex))
     ELSE IF InfoMatch(line).matched
     THEN Recognized(P, "info", parseInfo(P, InfoMatch(line), P.lines, lineIndex))
     ELSE skip("stack", updateFileStack(P, line))

\* return this.messages
parseReturn(P) == [P EXCEPT !.outcome = "returned"]

\* parse run to its end from the state P of a call in progress.
RECURSIVE parseRun(_)
parseRun(P) ==
  IF P.outcome # "running" THEN P
  ELSE IF P.lineIndex >= Len(P.lines) THEN parseReturn(P)
  ELSE parseRun(parseStep(P))

\* parse(logContent, texFilePath) on the instance P: the instance afterwards.
parse(P, lines, texFilePath) == parseRun(parseBegin(P, lines, texFilePath))

\* ---------------------------------------------------- the linter provider

\* new LinterProvider(), with atom.config's latex-tools.outputVerbosity at its
\* default; no setMessages call has reached the linter yet.
NoCall == [messages |-> <<>>, verbosity |-> Null]
\* this.indieInstance = null
NoIndie == [registered |-> FALSE, messages |-> <<>>]
NewLinterProvider ==
  [indieInstance |-> NoIndie, outputVerbosity |-> "default", passed |-> NoCall]

\* The indie instance of the linter package, holding the messages it was given.
Indie(messages) == [registered |-> TRUE, messages |-> messages]

\* register(indie)
register(L) == [L EXCEPT !.indieInstance = Indie(<<>>), !.passed = NoCall]

\* msg.location.fullPath.replace(/\.tex$/, ".log")
LogPathOf(fullPath) ==
  CASE fullPath = "/p/main.tex" -> "/p/main.log"
    [] fullPath = "/q/other.tex" -> "/q/other.log"
    [] fullPath = "/p/chap.tex" -> "/p/chap.log"
    [] OTHER -> fullPath

\* The linter message made of a diagnostic.
LinterMessage(msg) ==
  [severity |-> msg.severity,
   location |-> [file |-> msg.fullPath,
                 position |-> << <<msg.start.row, msg.start.column>>,
                                 <<msg.end.row, msg.end.column>> >>],
   excerpt |-> msg.excerpt,
   description |-> Undefined,
   reference |-> [file |-> LogPathOf(msg.fullPath),
                  position |-> <<msg.logRange[1], 0>>]]

\* `${severity}|${fullPath}|${start.row}:${start.column}|${excerpt}`
MessageKey(msg) ==
  <<msg.severity, msg.fullPath, msg.start.row, msg.start.column, msg.excerpt>>

\* filteredMessages.filter with the Set `seen`
RECURSIVE UniqueMessages(_, _)
UniqueMessages(messages, seen) ==
  IF messages = <<>> THEN <<>>
  ELSE IF MessageKey(Head(messages)) \in seen
  THEN UniqueMessages(Tail(messages), seen)
  ELSE <<Head(messages)>>
       \o UniqueMessages(Tail(messages), seen \cup {MessageKey(Head(messages))})

\* A setMessages that forwards info messages whatever the verbosity.
FilterByVerbosity_KeepsAll(messages, verbosity) == messages

\* messages.filter by the verbosity setting
FilterByVerbosity(messages, verbosity) ==
  LET keep(msg) == ~(msg.severity = "info" /\ verbosity # "extended")
  IN SelectSeq(messages, keep)

\* uniqueMessages.map
ToLinterMessages(messages) ==
  [i \in 1..Len(messages) |-> LinterMessage(messages[i])]

\* setMessages(messages)
setMessages(L, messages) ==
  IF L.indieInstance = NoIndie THEN L
  ELSE [L EXCEPT
          !.indieInstance =
             Indie(ToLinterMessages(
                     UniqueMessages(FilterByVerbosity(messages, L.outputVerbosity),
                                    {}))),
          !.passed = [messages |-> messages, verbosity |-> L.outputVerbosity]]

\* clearMessages()
clearMessages(L) ==
  IF L.indieInstance = NoIndie THEN L
  ELSE [L EXCEPT !.indieInstance = Indie(<<>>), !.passed = NoCall]

\* ------------------------------------------------------------ the panel

\* A message of the panel: its severity, its
\* location.position.start.row, and its text.
PanelMessage(severity, row, excerpt) ==
  [severity |-> severity, row |-> row, excerpt |-> excerpt]

NoPanelCall == [messages |-> <<>>, hideInfo |-> FALSE, hideWarnings |-> FALSE,
                made |-> FALSE]

\* new LaTeXPanel(); `passed` is the last call of setMessages: its argument
\* and the two settings it read.
NewLaTeXPanel ==
  [messages |-> <<>>, allMessages |-> <<>>, currentFile |-> Null,
   isBuilding |-> FALSE, passed |-> NoPanelCall]

severityOrder(severity) ==
  CASE severity = "error" -> 1
    [] severity = "warning" -> 2
    [] severity = "info" -> 3

\* A comparator that looks at the severity only.
compareMessages_SeverityOnly(a, b) ==
  severityOrder(a.severity) - severityOrder(b.severity)

\* The comparator setMessages sorts with.
compareMessages(a, b) ==
  LET severityDiff == severityOrder(a.severity) - severityOrder(b.severity)
  IN IF severityDiff # 0 THEN severityDiff ELSE a.row - b.row

\* Array.prototype.filter
RECURSIVE FilterOut(_, _)
FilterOut(messages, severity) ==
  IF messages = <<>> THEN <<>>
  ELSE IF Head(messages).severity = severity THEN FilterOut(Tail(messages), severity)
  ELSE <<Head(messages)>> \o FilterOut(Tail(messages), severity)

\* Array.prototype.sort with the comparator: a stable sort, so each message
\* goes behind the messages before it that do not compare greater.
RECURSIVE InsertSorted(_, _)
InsertSorted(sorted, m) ==
  IF sorted = <<>> THEN <<m>>
  ELSE IF compareMessages(Head(sorted), m) > 0 THEN <<m>> \o sorted
  ELSE <<Head(sorted)>> \o InsertSorted(Tail(sorted), m)

RECURSIVE SortMessages(_, _)
SortMessages(sorted, rest) ==
  IF rest = <<>> THEN sorted
  ELSE SortMessages(InsertSorted(sorted, Head(rest)), Tail(rest))

\* setMessages(messages, filePath) of the panel. Without a filter the array
\* sorted in place is the array stored as allMessages.
panelSetMessages(P, messages, filePath, hideInfo, hideWarnings) ==
  LET f1 == IF hideInfo THEN FilterOut(messages, "info") ELSE messages
      f2 == IF hideWarnings THEN FilterOut(f1, "warning") ELSE f1
      sorted == SortMessages(<<>>, f2)
  IN [messages |-> sorted,
      allMessages |-> IF hideInfo \/ hideWarnings THEN messages ELSE sorted,
      currentFile |-> filePath, isBuilding |-> FALSE,
      passed |-> [messages |-> messages, hideInfo |-> hideInfo,
                  hideWarnings |-> hideWarnings, made |-> TRUE]]

\* setBuilding(filePath)
panelSetBuilding(P, filePath) ==
  [P EXCEPT !.messages = <<>>, !.currentFile = filePath, !.isBuilding = TRUE,
            !.passed = NoPanelCall]

\* clear()
panelClear(P) ==
  [P EXCEPT !.messages = <<>>, !.currentFile = Null, !.isBuilding = FALSE,
            !.passed = NoPanelCall]

\* ------------------------------------------------------------ the state

\* The package was activated with the editor of a.tex in the active pane:
\* observeActivePaneItem has called updateStatusBarVisibility for it.
Init ==
  /\ buildingFiles = [keys |-> <<>>, vals |-> [p \in TexPaths |-> NoRecord]]
  /\ buildStates = [p \in TexPaths |-> DefaultBuildState]
  /\ buildProcesses = [keys |-> <<>>, vals |-> [p \in TexPaths |-> NoProcess]]
  /\ procs = <<>>
  /\ compileOnSaveEditors = {}
  /\ activeItem = [kind |-> "editor", path |-> "a.tex"]
  /\ currentTexFile = "a.tex"
  /\ statusBar = [status |-> "idle", visible |-> TRUE]
  /\ now = 1
  /\ emitted = <<>>
  /\ lastOp = NoOp
  /\ lastSet = [p \in TexPaths |-> "none"]
  /\ logParser = NewLogParser
  /\ lastChange = [editor \in TexPaths |-> "none"]
  /\ pdf = <<>>
  /\ linter = NewLinterProvider
  /\ latexPanel = NewLaTeXPanel
  /\ subscriber = "none"

\* A command or callback of main.js ran. The linter is left alone: the
\* handlers call setMessages and clearMessages only, and without a registered
\* indie instance both return at once; Register is an action of LinterSpec.
Handler(S) ==
  /\ Run(S)
  /\ lastOp' = NoOp
  /\ UNCHANGED <<activeItem, now, logParser, linter,
                 latexPanel, subscriber>>

\* A method of the service, or an operation of the registry, was called.
Method(S, op, file, args, ret) ==
  /\ Run(S)
  /\ lastOp' = Call(op, file, args, ret)
  /\ UNCHANGED <<activeItem, now, logParser, linter,
                 latexPanel, subscriber>>

\* Time passes.
Tick ==
  /\ now < MaxTime
  /\ now' = now + 1
  /\ UNCHANGED <<buildingFiles, buildStates, buildProcesses, procs,
                 compileOnSaveEditors, activeItem, currentTexFile, statusBar,
                 emitted, lastOp, lastSet, logParser, lastChange, pdf, linter,
                 latexPanel, subscriber>>

\* ------------------------------------------- the actions of the orchestrator

\* observeActivePaneItem: another item becomes the active pane item.
ObserveActivePaneItem(item) ==
  /\ item # activeItem
  /\ activeItem' = item
  /\ Run(IF item = NoItem THEN hide(Main) ELSE updateStatusBarVisibility(Main, item))
  /\ lastOp' = NoOp
  /\ UNCHANGED <<now, logParser, linter,
                 latexPanel, subscriber>>

\* latex-tools:compile
Compile ==
  LET filePath == ActiveEditorPath
  IN /\ EndsWithTex(filePath)
     /\ ~checkBuildStatus(Main, filePath)
     /\ Len(procs) < MaxProcs
     /\ Handler(runCompilation(Main, filePath))

\* compileFile(editor): an editor with compile-on-save enabled was saved or reloaded.
CompileFile(filePath) ==
  /\ filePath \in compileOnSaveEditors
  /\ ~checkBuildStatus(Main, filePath)
  /\ Len(procs) < MaxProcs
  /\ Handler(runCompilation(Main, filePath))

\* compileFromStatusBar(): a left click on the status bar.
CompileFromStatusBar ==
  LET filePath == IF EndsWithTex(ActiveEditorPath) THEN ActiveEditorPath
                  ELSE currentTexFile
  IN /\ statusBar.visible
     /\ filePath # Null
     /\ ~checkBuildStatus(Main, filePath)
     /\ Len(procs) < MaxProcs
     /\ Handler(runCompilation(Main, filePath))

\* latex-tools:interrupt
Interrupt ==
  LET filePath == ActiveEditorPath
  IN /\ EndsWithTex(filePath)
     /\ checkBuildStatus(Main, filePath)
     /\ Handler(interruptTracked(Main, filePath, TRUE))

\* latex-tools:interrupt-all
InterruptAll ==
  /\ buildProcesses.keys # <<>>
  /\ Handler(interruptAllTracked(Main))

\* latex-tools:clean
Clean(cleaned) ==
  LET filePath == ActiveEditorPath
  IN /\ EndsWithTex(filePath)
     /\ Handler(cleanFile(Main, filePath, cleaned))

\* latex-tools:kill-and-clean
KillAndClean(cleaned) ==
  LET filePath == ActiveEditorPath
  IN /\ EndsWithTex(filePath)
     /\ Handler(killAndCleanFile(Main, filePath, cleaned))

\* killAndCleanFromStatusBar(): a right click on the status bar.
KillAndCleanFromStatusBar(cleaned) ==
  LET filePath == IF EndsWithTex(ActiveEditorPath) THEN ActiveEditorPath
                  ELSE currentTexFile
  IN /\ statusBar.visible
     /\ filePath # Null
     /\ Handler(killAndCleanFile(Main, filePath, cleaned))

\* latex-tools:toggle-compile-on-save
ToggleCompileOnSave ==
  LET filePath == ActiveEditorPath
      enabled == filePath \notin compileOnSaveEditors
      S1 == [Main EXCEPT
               !.compileOnSaveEditors =
                 IF enabled THEN @ \cup {filePath} ELSE @ \ {filePath},
               !.events = <<[type |-> "did-change-compile-on-save",
                             editor |-> filePath, enabled |-> enabled]>>]
  IN /\ EndsWithTex(filePath)
     /\ Handler(updateStatusBarVisibility(S1, activeItem))

\* service.setCompileOnSave(editor, enabled)
ServiceSetCompileOnSave(editor, enabled) ==
  LET r == setCompileOnSaveForEditor(Main, editor, enabled)
  IN Method(r.state, "service.setCompileOnSave", editor, <<enabled>>, r.ret)

\* The onDidDestroy callback of an editor with compile-on-save enabled. A pane
\* makes another item active before it destroys the active one.
DestroyEditor(editor) ==
  /\ isCompileOnSaveEnabled(Main, editor)
  /\ ActiveEditorPath # editor
  /\ Handler(disableCompileOnSave(Main, editor))

\* service.compile(filePath)
ServiceCompile(filePath) ==
  IF compileReturns(buildingFiles, filePath) = "false"
  THEN Method(Main, "service.compile", filePath, <<>>, "false")
  ELSE /\ Len(procs) < MaxProcs
       /\ Method(runCompilation(Main, filePath), "service.compile", filePath,
                  <<>>, "true")

\* service.interrupt(filePath), that is interruptFile(filePath)
ServiceInterrupt(filePath) ==
  IF ~EndsWithTex(filePath) \/ ~checkBuildStatus(Main, filePath)
  THEN Method(Main, "service.interrupt", filePath, <<>>, "false")
  ELSE Method(interruptTracked(Main, filePath, FALSE), "service.interrupt",
               filePath, <<>>, "true")

\* service.interruptAll(), that is interruptAllBuilds()
ServiceInterruptAll ==
  LET count == Len(buildProcesses.keys)
  IN IF count = 0
     THEN Method(Main, "service.interruptAll", Null, <<>>, count)
     ELSE Method(interruptAllTracked(Main), "service.interruptAll", Null, <<>>, count)

\* The exit callback of process pid runs: with an exit code (code, null), or with
\* a signal (null, signal); lastOp records <<code, signalled, log>>.
ProcessExit(pid) ==
  /\ "exit" \in procs[pid].pending
  /\ \/ \E code \in {0} \cup FailureCodes, log \in LogFiles,
            stdout \in Stdouts, stderr \in Stderrs :
            Method(onExit(Main, pid, code, FALSE, log, stdout, stderr),
                   "exit", procs[pid].file, <<code, FALSE, log>>, Undefined)
     \/ Method(onExit(Main, pid, -1, TRUE, NoLog, "", ""),
               "exit", procs[pid].file, <<-1, TRUE, NoLog>>, Undefined)

\* The error callback of process pid runs.
ProcessError(pid) ==
  /\ "error" \in procs[pid].pending
  /\ \E exits \in BOOLEAN :
       Method(onError(Main, pid, exits), "error", procs[pid].file, <<>>, Undefined)

\* The orchestrator while the editor of a.tex stays the active pane item: the
\* commands and status-bar clicks act on a.tex, the service methods on any path.
\* No handler decides on the clock (Date.now() only stamps records and elapsed
\* times), so time stands still here; RegistrySpec lets it pass.
Next ==
  \/ Compile
  \/ CompileFromStatusBar
  \/ Interrupt
  \/ InterruptAll
  \/ \E cleaned \in BOOLEAN : Clean(cleaned)
  \/ \E cleaned \in BOOLEAN : KillAndClean(cleaned)
  \/ \E cleaned \in BOOLEAN : KillAndCleanFromStatusBar(cleaned)
  \/ \E p \in AllPaths : ServiceCompile(p)
  \/ \E p \in AllPaths : ServiceInterrupt(p)
  \/ ServiceInterruptAll
  \/ \E pid \in 1..Len(procs) : ProcessExit(pid)
  \/ \E pid \in 1..Len(procs) : ProcessError(pid)

Spec == Init /\ [][Next]_vars

\* The same with the user switching pane items and using compile-on-save.
WorkspaceNext ==
  \/ Next
  \/ \E item \in Items : ObserveActivePaneItem(item)
  \/ ToggleCompileOnSave
  \/ \E p \in TexPaths : CompileFile(p)

WorkspaceSpec == Init /\ [][WorkspaceNext]_vars

\* Compile-on-save: switched by the command and through the service, used by
\* saving, and cleaned up when an editor is closed.
CompileOnSaveNext ==
  \/ \E editor \in AllPaths \cup {Null}, enabled \in BOOLEAN :
       ServiceSetCompileOnSave(editor, enabled)
  \/ ToggleCompileOnSave
  \/ \E item \in Items : ObserveActivePaneItem(item)
  \/ \E editor \in TexPaths : DestroyEditor(editor)

CompileOnSaveSpec == Init /\ [][CompileOnSaveNext]_vars

\* Builds of a.tex while another package may subscribe a callback that calls
\* service.compile for a file whose build failed.
Subscribe(reaction) ==
  /\ subscriber # reaction
  /\ subscriber' = reaction
  /\ UNCHANGED <<buildingFiles, buildStates, buildProcesses, procs,
                 compileOnSaveEditors, activeItem, currentTexFile, statusBar, now,
                 emitted, lastOp, lastSet, logParser, lastChange, pdf, linter,
                 latexPanel>>

ReentrantNext ==
  \/ \E reaction \in {"none", "compile-on-fail"} : Subscribe(reaction)
  \/ Compile
  \/ Interrupt /\ Len(procs') <= MaxProcs
  \/ \E pid \in 1..Len(procs) : ProcessExit(pid) /\ Len(procs') <= MaxProcs
  \/ \E pid \in 1..Len(procs) : ProcessError(pid) /\ Len(procs') <= MaxProcs

ReentrantSpec == Init /\ [][ReentrantNext]_vars

\* --------------------------------- the registry driven directly by a caller

StartBuild(filePath) ==
  Method(Registry(Main, startBuild(buildingFiles, filePath, now)),
          "startBuild", filePath, <<>>, Undefined)

FinishBuild(filePath, output, elapsedTime) ==
  Method(Registry(Main, finishBuild(buildingFiles, filePath, output, elapsedTime, now)),
          "finishBuild", filePath, <<output, elapsedTime>>, Undefined)

FailBuild(filePath, error, output) ==
  Method(Registry(Main, failBuild(buildingFiles, filePath, error, output, now)),
          "failBuild", filePath, <<error, output>>, Undefined)

Reset(filePath) ==
  Method(Registry(Main, reset(buildingFiles, filePath)),
          "reset", filePath, <<>>, Undefined)

RegistryNext ==
  \/ Tick
  \/ \E p \in TexPaths : StartBuild(p)
  \/ \E p \in TexPaths, output \in Outputs, elapsedTime \in ElapsedTimes :
       FinishBuild(p, output, elapsedTime)
  \/ \E p \in TexPaths, error \in ErrorSummaries, output \in Outputs :
       FailBuild(p, error, output)
  \/ \E p \in TexPaths \cup {Null} : Reset(p)

RegistrySpec == Init /\ [][RegistryNext]_vars

\* ------------------------------------------------ opening the PDF

\* latex-tools:open-pdf
OpenPdf ==
  LET filePath == ActiveEditorPath
  IN /\ EndsWithTex(filePath)
     /\ Len(pdf) < MaxRequests
     /\ \E exists \in BOOLEAN : Handler(openPdf(Main, filePath, exists))

\* The timer openPdfAfterBuild set runs out: the PDF is opened.
PdfTimer(i) ==
  /\ pdf[i].status = "scheduled"
  /\ pdf' = [pdf EXCEPT ![i].status = "opened"]
  /\ UNCHANGED <<buildingFiles, buildStates, buildProcesses, procs,
                 compileOnSaveEditors, activeItem, currentTexFile, statusBar, now,
                 emitted, lastOp, lastSet, logParser, lastChange, linter,
                 latexPanel, subscriber>>

\* Builds of a.tex, requests to open its PDF, and what ends a build.
PdfNext ==
  \/ Compile
  \/ OpenPdf
  \/ Interrupt
  \/ \E cleaned \in BOOLEAN : KillAndClean(cleaned)
  \/ \E pid \in 1..Len(procs) : ProcessExit(pid)
  \/ \E pid \in 1..Len(procs) : ProcessError(pid)
  \/ \E i \in 1..Len(pdf) : PdfTimer(i)

PdfSpec == Init /\ [][PdfNext]_vars

\* ------------------------------------------------ the parser called alone

\* The first line of a log: a line that would be a fatal error anywhere else,
\* or one that would open a file.
FirstLines ==
  { LogLine(0, <<W("!"), W("Emergency"), W("stop.")>>),
    LogLine(0, <<W("(./chap.tex")>>) }

EmptyLine == LogLine(0, <<>>)
OpenLine == LogLine(0, <<W("(./chap.tex")>>)
CloseLine == LogLine(0, <<W(")")>>)
NoteLine == LogLine(0, <<W("(see"), W("note)")>>)
FatalLine == LogLine(0, <<W("!"), W("Undefined"), W("control"), W("sequence.")>>)
ContextLine == LogLine(0, <<W("l.12"), W("\\foo")>>)
FileLineLine ==
  LogLine(0, <<D(<<1, 2>>, ".tex:3:"), W("Undefined"), W("control"), W("sequence.")>>)
HelpLine == LogLine(0, <<W("ch.tex:7:"), W("You"), W("need"), W("\\begin")>>)
FatalFileLine == LogLine(0, <<W("!"), W("ch.tex:7:"), W("Missing")>>)
BoxLine ==
  LogLine(0, <<W("Overfull \\hbox (1.0pt too wide)"), W("in"), W("paragraph"),
               W("at"), W("lines"), D(<<5>>, "--7")>>)
BoxLineReversed ==
  LogLine(0, <<W("Overfull \\hbox (1.0pt too wide)"), W("in"), W("paragraph"),
               W("at"), W("lines"), D(<<5>>, "--3")>>)
WarningLine ==
  LogLine(0, <<W("LaTeX"), W("Warning:"), W("Reference"), W("undefined"), W("on"),
               W("input"), W("line"), D(<<2, 4>>, "")>>)
BadPackageLine == LogLine(0, <<W("Package"), W("foo("), W("Warning:"), W("bad")>>)
InfoLine ==
  LogLine(0, <<W("LaTeX"), W("Info:"), W("Undefined"), W("control"), W("sequence.")>>)

\* The lines a log is made of after its first line.
Alphabet ==
  { EmptyLine, OpenLine, CloseLine, NoteLine, FatalLine, FatalFileLine,
    ContextLine, FileLineLine, HelpLine, BoxLine, BoxLineReversed, WarningLine,
    BadPackageLine, InfoLine }

\* parse is called on an instance on which no call is in progress.
ParseCall(lines, texFilePath) ==
  /\ logParser.outcome # "running"
  /\ logParser' = parseBegin(logParser, lines, texFilePath)
  /\ UNCHANGED <<buildingFiles, buildStates, buildProcesses, procs,
                 compileOnSaveEditors, activeItem, currentTexFile, statusBar, now,
                 emitted, lastOp, lastSet, lastChange, pdf, linter,
                 latexPanel, subscriber>>

\* The loop of parse looks at its next line.
ParseIterate ==
  /\ logParser.outcome = "running"
  /\ logParser.lineIndex < Len(logParser.lines)
  /\ logParser' = parseStep(logParser)
  /\ UNCHANGED <<buildingFiles, buildStates, buildProcesses, procs,
                 compileOnSaveEditors, activeItem, currentTexFile, statusBar, now,
                 emitted, lastOp, lastSet, lastChange, pdf, linter,
                 latexPanel, subscriber>>

\* The loop of parse is over: parse returns.
ParseReturn ==
  /\ logParser.outcome = "running"
  /\ logParser.lineIndex >= Len(logParser.lines)
  /\ logParser' = parseReturn(logParser)
  /\ UNCHANGED <<buildingFiles, buildStates, buildProcesses, procs,
                 compileOnSaveEditors, activeItem, currentTexFile, statusBar, now,
                 emitted, lastOp, lastSet, lastChange, pdf, linter,
                 latexPanel, subscriber>>

\* One call of parse on a new LogParser, for every document and every log of
\* a first line and up to MaxLines - 1 lines of the alphabet
\* (logContent.split(/\r?\n/)).
ParserNext ==
  \/ /\ logParser = NewLogParser
     /\ \E k \in 0..(MaxLines - 1) :
          \E first \in FirstLines, rest \in [1..k -> Alphabet],
             texFilePath \in RootPaths :
             ParseCall(<<first>> \o rest, texFilePath)
  \/ ParseIterate
  \/ ParseReturn

ParserSpec == Init /\ [][ParserNext]_vars

\* The lines of the (shorter) logs of the calls that share one instance.
SharedAlphabet == {OpenLine, CloseLine, FatalLine, InfoLine, BadPackageLine}
SharedFirstLine == LogLine(0, <<W("This"), W("is"), W("pdfTeX")>>)

\* Calls of parse, one after the other, on the instance main.js shares.
SharedParserNext ==
  \/ /\ logParser.outcome # "running"
     /\ \E k \in 0..(MaxLines - 2) :
          \E rest \in [1..k -> SharedAlphabet], texFilePath \in RootPaths :
             ParseCall(<<SharedFirstLine>> \o rest, texFilePath)
  \/ ParseIterate
  \/ ParseReturn

SharedParserSpec == Init /\ [][SharedParserNext]_vars

\* Logs around a fatal error: the lines parseFatalError joins, skips and
\* stops at.
TextLine == LogLine(0, <<W("Missing"), W("inserted.")>>)
AngleLine == LogLine(0, <<W("<recently"), W("read>")>>)
SpacesLine == LogLine(2, <<>>)
ContextLineZero == LogLine(0, <<W("l.0"), W("\\foo")>>)

FatalAlphabet ==
  { FatalLine, TextLine, AngleLine, SpacesLine, ContextLine, ContextLineZero,
    EmptyLine, WarningLine, FileLineLine, OpenLine }

FatalNext ==
  \/ /\ logParser = NewLogParser
     /\ \E k \in 0..(MaxLines - 1) :
          \E first \in FirstLines, rest \in [1..k -> FatalAlphabet] :
             ParseCall(<<first>> \o rest, "/p/main.tex")
  \/ ParseIterate
  \/ ParseReturn

FatalSpec == Init /\ [][FatalNext]_vars

\* Logs around a file:line error: the lines parseFileLineError joins and
\* stops at.
IndentedLine == LogLine(2, <<W("Missing"), W("inserted.")>>)
ChapterErrorLine == LogLine(0, <<W("ch.tex:7:"), W("Missing")>>)
ShortHelpLine == LogLine(0, <<W("ch.tex:7:"), W("You")>>)

FileLineAlphabet ==
  { FileLineLine, ChapterErrorLine, HelpLine, ShortHelpLine, IndentedLine,
    TextLine, SpacesLine, ContextLine, EmptyLine, FatalLine }

FileLineNext ==
  \/ /\ logParser = NewLogParser
     /\ \E k \in 0..(MaxLines - 1) :
          \E first \in FirstLines, rest \in [1..k -> FileLineAlphabet],
             texFilePath \in RootPaths :
             ParseCall(<<first>> \o rest, texFilePath)
  \/ ParseIterate
  \/ ParseReturn

FileLineSpec == Init /\ [][FileLineNext]_vars

\* Logs around box warnings: the forms of the line, and the lines that open
\* and close files.
BoxLineWider ==
  LogLine(0, <<W("Overfull \\hbox (1.0pt too wide)"), W("in"), W("paragraph"),
               W("at"), W("lines"), D(<<5>>, "--9")>>)
BoxLineSingular ==
  LogLine(0, <<W("Underfull \\vbox (badness 10000)"), W("at"), W("line"), D(<<5>>, "")>>)
BoxLineAlignment ==
  LogLine(0, <<W("Underfull \\vbox (badness 10000)"), W("in"), W("alignment"),
               W("at"), W("lines"), D(<<1, 2>>, "--3")>>)

BoxAlphabet ==
  { BoxLine, BoxLineWider, BoxLineReversed, BoxLineSingular, BoxLineAlignment,
    OpenLine, CloseLine, NoteLine, FatalLine }

BoxNext ==
  \/ /\ logParser = NewLogParser
     /\ \E k \in 0..(MaxLines - 1) :
          \E first \in FirstLines, rest \in [1..k -> BoxAlphabet] :
             ParseCall(<<first>> \o rest, "/p/main.tex")
  \/ ParseIterate
  \/ ParseReturn

BoxSpec == Init /\ [][BoxNext]_vars

\* Logs around warnings and info messages: the lines
\* collectContinuationLines joins and stops at.
PackageWarningLine ==
  LogLine(0, <<W("Package"), W("foo"), W("Warning:"), W("bad"), W("on"), W("input"),
               W("line"), D(<<2, 4>>, "")>>)
DigitLine == LogLine(0, <<D(<<2, 1>>, "."), W("more")>>)
DeepLine == LogLine(15, <<W("Missing"), W("inserted.")>>)
DeepDigitLine == LogLine(15, <<D(<<3>>, ""), W("more")>>)
PackageLine == LogLine(0, <<W("(foo)"), W("more")>>)

ContinuationAlphabet ==
  { WarningLine, PackageWarningLine, InfoLine, DigitLine, DeepLine,
    DeepDigitLine, PackageLine, IndentedLine, EmptyLine }

ContinuationNext ==
  \/ /\ logParser = NewLogParser
     /\ \E k \in 0..(MaxLines - 1) :
          \E first \in FirstLines, rest \in [1..k -> ContinuationAlphabet] :
             ParseCall(<<first>> \o rest, "/p/main.tex")
  \/ ParseIterate
  \/ ParseReturn

ContinuationSpec == Init /\ [][ContinuationNext]_vars

\* Logs that take every branch of the main loop and of the loops of its
\* helpers.
LoopAlphabet ==
  { FatalLine, ContextLine, FileLineLine, IndentedLine, BoxLine, WarningLine,
    DigitLine, DeepLine, BadPackageLine, OpenLine, EmptyLine }

LoopNext ==
  \/ /\ logParser = NewLogParser
     /\ \E k \in 0..(MaxLines - 1) :
          \E rest \in [1..k -> LoopAlphabet] :
             ParseCall(<<SharedFirstLine>> \o rest, "/p/main.tex")
  \/ ParseIterate
  \/ ParseReturn

\* The condition of the while loop: ParseIterate can be taken exactly when it
\* holds (parseStep is defined for every line and lengthens the trace).
InLoop ==
  logParser.outcome = "running" /\ logParser.lineIndex < Len(logParser.lines)

\* parse is synchronous code that runs on: the loop goes on while its
\* condition holds, and the return after it is taken.  The first conjunct is
\* WF_vars(ParseIterate) with ENABLED <<ParseIterate>>_vars written as InLoop.
LoopFairness ==
  /\ []<>(~InLoop) \/ []<><<ParseIterate>>_vars
  /\ WF_vars(ParseReturn)

LoopSpec == Init /\ [][LoopNext]_vars /\ LoopFairness

\* ------------------------------------------ the linter provider called alone

\* The diagnostics handed to setMessages: an error, an info message at the
\* same place with the same text, the error again with another end row, and
\* a warning in another file.
LinterDiagnostics ==
  { Message("error", <<W("Missing"), W("$")>>, "/p/main.tex", 2, 2, 5, 6),
    Message("info", <<W("Missing"), W("$")>>, "/p/main.tex", 2, 2, 7, 7),
    Message("error", <<W("Missing"), W("$")>>, "/p/main.tex", 2, 4, 8, 8),
    Message("warning", <<W("Citation"), W("undefined")>>, "/p/chap.tex", 0, 0, 9, 9) }

\* The linter package consumes the provider (consumeIndie).
Register ==
  /\ linter.indieInstance = NoIndie
  /\ linter' = register(linter)
  /\ UNCHANGED <<buildingFiles, buildStates, buildProcesses, procs,
                 compileOnSaveEditors, activeItem, currentTexFile, statusBar, now,
                 emitted, lastOp, lastSet, logParser, lastChange, pdf,
                 latexPanel, subscriber>>

\* The user changes latex-tools.outputVerbosity.
SetOutputVerbosity(verbosity) ==
  /\ verbosity # linter.outputVerbosity
  /\ linter' = [linter EXCEPT !.outputVerbosity = verbosity]
  /\ UNCHANGED <<buildingFiles, buildStates, buildProcesses, procs,
                 compileOnSaveEditors, activeItem, currentTexFile, statusBar, now,
                 emitted, lastOp, lastSet, logParser, lastChange, pdf,
                 latexPanel, subscriber>>

\* linterProvider.setMessages(messages)
SetMessages(messages) ==
  /\ linter' = setMessages(linter, messages)
  /\ UNCHANGED <<buildingFiles, buildStates, buildProcesses, procs,
                 compileOnSaveEditors, activeItem, currentTexFile, statusBar, now,
                 emitted, lastOp, lastSet, logParser, lastChange, pdf,
                 latexPanel, subscriber>>

\* linterProvider.clearMessages()
ClearMessages ==
  /\ linter' = clearMessages(linter)
  /\ UNCHANGED <<buildingFiles, buildStates, buildProcesses, procs,
                 compileOnSaveEditors, activeItem, currentTexFile, statusBar, now,
                 emitted, lastOp, lastSet, logParser, lastChange, pdf,
                 latexPanel, subscriber>>

LinterNext ==
  \/ Register
  \/ \E verbosity \in {"default", "extended"} : SetOutputVerbosity(verbosity)
  \/ \E k \in 0..MaxDiagnostics :
       \E messages \in [1..k -> LinterDiagnostics] : SetMessages(messages)
  \/ ClearMessages

LinterSpec == Init /\ [][LinterNext]_vars

\* ------------------------------------------------------ the panel called alone

\* The messages a panel is given: two errors at different rows, a warning
\* and an info message.
PanelDiagnostics ==
  { PanelMessage("error", 0, "Undefined control sequence"),
    PanelMessage("error", 4, "Undefined control sequence"),
    PanelMessage("warning", 0, "Reference undefined"),
    PanelMessage("info", 4, "Overfull hbox") }

PanelUnchanged ==
  UNCHANGED <<buildingFiles, buildStates, buildProcesses, procs,
              compileOnSaveEditors, activeItem, currentTexFile, statusBar, now,
              emitted, lastOp, lastSet, logParser, lastChange, pdf, linter,
              subscriber>>

\* latexPanel.setMessages(messages, filePath) with the two settings as they
\* are when it is called.
PanelSetMessages(messages, filePath, hideInfo, hideWarnings) ==
  /\ latexPanel' = panelSetMessages(latexPanel, messages, filePath, hideInfo,
                                    hideWarnings)
  /\ PanelUnchanged

PanelSetBuilding(filePath) ==
  /\ latexPanel' = panelSetBuilding(latexPanel, filePath)
  /\ PanelUnchanged

PanelClear ==
  /\ latexPanel' = panelClear(latexPanel)
  /\ PanelUnchanged

PanelNext ==
  \/ \E k \in 0..MaxDiagnostics, hideInfo \in BOOLEAN, hideWarnings \in BOOLEAN :
       \E messages \in [1..k -> PanelDiagnostics] :
         PanelSetMessages(messages, "a.tex", hideInfo, hideWarnings)
  \/ PanelSetBuilding("a.tex")
  \/ PanelClear

PanelSpec == Init /\ [][PanelNext]_vars

\* ------------------------------------------------------------ properties

\* The registry status of a path, as getStatus reports it.
RegistryStatus(p) == getStatus(buildingFiles, p).status

\* The events of the given types that the list evs holds for path p.
Published(evs, types, p) ==
  {i \in 1..Len(evs) : evs[i].type \in types /\ evs[i].file = p}

Terminal == {"did-finish-build", "did-fail-build"}

\* A compiler process of p is alive: its exit has not been reported yet.
ActuallyRunning(p) ==
  \E pid \in 1..Len(procs) : procs[pid].file = p /\ "exit" \in procs[pid].pending

AllowedTransitions ==
  { <<"idle", "building">>, <<"building", "success">>, <<"building", "error">>,
    <<"success", "building">>, <<"error", "building">>, <<"building", "idle">> }

\* C1: the registry status of a path changes only along idle -> building,
\* building -> success, building -> error, success/error -> building and
\* building -> idle, and finishBuild or failBuild (a did-finish-build or
\* did-fail-build event for the path) is only applied to a path whose status
\* is building.
C1_StatusTransitions ==
  [][\A p \in TexPaths :
       /\ RegistryStatus(p)' # RegistryStatus(p) =>
            <<RegistryStatus(p), RegistryStatus(p)'>> \in AllowedTransitions
       /\ Published(emitted', Terminal, p) # {} => RegistryStatus(p) = "building"
    ]_vars

\* C2: no step of the orchestrator calls startBuild(p) (publishes
\* did-start-build for p) from a state in which the registry status of p is
\* building.
C2_NoStartWhileBuilding ==
  [][\A p \in TexPaths :
       Published(emitted', {"did-start-build"}, p) # {} =>
         RegistryStatus(p) # "building"
    ]_vars

\* C3: when the exit callback of a build's process reports termination by a
\* signal, no did-finish-build or did-fail-build has been published for that
\* build (the last lifecycle event of its file is still its start, and the
\* callback publishes none), and the registry status of the file is idle.
C3_SignalEndsIdle ==
  (lastOp.op = "exit" /\ lastOp.args[2]) =>
     /\ lastOp.before = "start"
     /\ Published(emitted, Terminal, lastOp.file) = {}
     /\ RegistryStatus(lastOp.file) = "idle"

\* Whether the events evs, seen in order by a subscriber who last saw
\* seen[p] for each path p, keep the order start, finish-or-fail, start, ...
RECURSIVE InOrder(_, _)
InOrder(seen, evs) ==
  IF evs = <<>> THEN TRUE
  ELSE LET e == Head(evs)
       IN /\ e.type = "did-start-build" => seen[e.file] # "start"
          /\ e.type \in Terminal => seen[e.file] = "start"
          /\ InOrder(Observe(seen, <<e>>), Tail(evs))

\* C4: for every path a subscriber sees did-start-build, then exactly one of
\* did-finish-build and did-fail-build, before the next did-start-build: no
\* second start without a terminal event between, no terminal event without a
\* start since the last terminal event.
C4_LifecycleOrder == [][InOrder(lastSet, emitted')]_vars

IsError(m) == m.severity = "error"

\* C5 as stated: every did-fail-build is preceded, in the events of the same
\* operation, by a diagnostics-updated event for the same file that holds at
\* least one error diagnostic.
C5_EveryFailureHasDiagnostics ==
  \A i \in Published(emitted, {"did-fail-build"}, "a.tex")
           \cup Published(emitted, {"did-fail-build"}, "b.tex") :
    \E j \in 1..(i - 1) :
       /\ emitted[j].type = "did-update-messages"
       /\ emitted[j].file = emitted[i].file
       /\ \E k \in 1..Len(emitted[j].messages) : IsError(emitted[j].messages[k])

\* C5: when the exit callback reports a non-zero exit code, it publishes
\* exactly a diagnostics-updated event and then did-fail-build and the error
\* status change for the file; the diagnostics are all of error severity and
\* at least one: the error diagnostics of the log, in order, when the log can
\* be read and holds an error, otherwise exactly the synthetic "Critical
\* error: Compilation failed with exit code N".
C5_FailedExitPublishesErrors ==
  (lastOp.op = "exit" /\ ~lastOp.args[2] /\ lastOp.args[1] # 0) =>
     LET code == lastOp.args[1]
         log == lastOp.args[3]
         errors == SelectSeq(log.messages, IsError)
         expected ==
           IF log.kind = "parsed" /\ errors # <<>> THEN errors
           ELSE <<[severity |-> "error", excerpt |-> CriticalExcerpt(code),
                   row |-> 0]>>
     IN /\ Len(emitted) = 3
        /\ emitted[1] = [type |-> "did-update-messages", file |-> lastOp.file,
                         messages |-> expected]
        /\ Len(emitted[1].messages) >= 1
        /\ \A k \in 1..Len(emitted[1].messages) : IsError(emitted[1].messages[k])
        /\ emitted[2].type = "did-fail-build" /\ emitted[2].file = lastOp.file
        /\ emitted[3].type = "did-change-build-status"
        /\ emitted[3].status = "error"

\* C5 witness: exit code 12 with a log that holds only a warning: the synthetic
\* diagnostic is the only one published.
C5_Witness ==
  /\ lastOp.op = "exit" /\ ~lastOp.args[2] /\ lastOp.args[1] = 12
  /\ lastOp.args[3].kind = "parsed" /\ Len(lastOp.args[3].messages) = 1
  /\ emitted[1].messages[1].excerpt = CriticalExcerpt(12)
  /\ RegistryStatus(lastOp.file) = "error"

\* C6: service.compile(p) returns true for a .tex path whenever no compiler
\* process of p is alive, so a file can be rebuilt once the process of its
\* previous build has exited, however it exited.
C6_CompileWhenNotRunning ==
  \A p \in TexPaths :
    ~ActuallyRunning(p) => compileReturns(buildingFiles, p) = "true"

\* C7: after startBuild(p) and then finishBuild(p, output, elapsed) the status
\* of p is success with an end time and no error, isBuilding(p) is false, and
\* the call published exactly did-finish-build {file, output, elapsedTime} and
\* then status-change {success, p}.
C7_FinishAfterStart ==
  (lastOp.op = "finishBuild" /\ lastOp.before = "start") =>
     LET p == lastOp.file
         st == getStatus(buildingFiles, p)
     IN /\ st.status = "success"
        /\ st.endTime # 0
        /\ st.error = Null
        /\ isBuilding(buildingFiles, p) = "false"
        /\ emitted =
             << [type |-> "did-finish-build", file |-> p,
                 output |-> lastOp.args[1], elapsedTime |-> lastOp.args[2]],
                [type |-> "did-change-build-status", status |-> "success",
                 file |-> p, error |-> Undefined] >>

C7_Witness ==
  /\ lastOp.op = "finishBuild" /\ lastOp.before = "start"
  /\ lastOp.file = "b.tex" /\ lastOp.args = <<"latexmk output", 1500>>
  /\ RegistryStatus("b.tex") = "success"
  /\ now = MaxTime

StatusAfter(seen) ==
  CASE seen = "start" -> "building"
    [] seen = "finish" -> "success"
    [] seen = "fail" -> "error"
    [] OTHER -> "idle"

\* C9: reset(p) removes the record of p and of no other path (every other path
\* keeps the record its last lifecycle event gave it) and publishes exactly
\* status-change {idle, p}; reset() removes every record and publishes exactly
\* status-change {idle, file: null}, after which the aggregate getStatus() is
\* idle with buildingCount 0 and an empty files list.
C9_Reset ==
  lastOp.op = "reset" =>
     IF lastOp.file # Null
     THEN /\ ~MapHas(buildingFiles, lastOp.file)
          /\ \A q \in TexPaths \ {lastOp.file} :
               /\ MapHas(buildingFiles, q) <=> lastSet[q] # "none"
               /\ MapHas(buildingFiles, q) =>
                    buildingFiles.vals[q].status = StatusAfter(lastSet[q])
          /\ emitted = << [type |-> "did-change-build-status", status |-> "idle",
                           file |-> lastOp.file, error |-> Undefined] >>
     ELSE /\ \A q \in TexPaths : ~MapHas(buildingFiles, q)
          /\ emitted = << [type |-> "did-change-build-status", status |-> "idle",
                           file |-> Null, error |-> Undefined] >>
          /\ getStatusAll(buildingFiles) =
               [status |-> "idle", buildingCount |-> 0, files |-> <<>>]

\* C9 witness: reset(a.tex) while b.tex is building.
C9_Witness ==
  /\ lastOp.op = "reset" /\ lastOp.file = "a.tex" /\ lastOp.before = "fail"
  /\ MapHas(buildingFiles, "b.tex")
  /\ buildingFiles.vals["b.tex"].status = "building"

\* C10: getStatus(p) is idle with null startTime, endTime and error exactly
\* when p has no record (never started, finished or failed, or reset since);
\* otherwise its status is the one last set by startBuild, finishBuild or
\* failBuild.
C10_GetStatusDefault ==
  \A p \in TexPaths :
    LET st == getStatus(buildingFiles, p)
        untracked == lastSet[p] = "none"
    IN /\ untracked <=> ~MapHas(buildingFiles, p)
       /\ untracked <=>
            (st.status = "idle" /\ st.startTime = 0 /\ st.endTime = 0
             /\ st.error = Null)
       /\ ~untracked => st.status = StatusAfter(lastSet[p])

\* C10 witness: a.tex was reset after a build, b.tex failed.
C10_Witness ==
  /\ lastOp.op = "reset" /\ lastOp.file = "a.tex" /\ lastOp.before = "finish"
  /\ getStatus(buildingFiles, "a.tex") =
       [status |-> "idle", file |-> "a.tex", startTime |-> 0, endTime |-> 0,
        error |-> Null]
  /\ getStatus(buildingFiles, "b.tex").status = "error"

\* C11: in every registry state the aggregate getStatus() has buildingCount
\* equal to the number of paths whose status is building, status building
\* exactly when that count is positive (exactly when isAnyBuilding()), and a
\* files list with exactly one entry per tracked path, carrying its status;
\* with a.tex and b.tex both started, buildingCount is 2 and both are listed.
C11_Aggregate ==
  LET agg == getStatusAll(buildingFiles)
      building == {p \in TexPaths : RegistryStatus(p) = "building"}
      tracked == {p \in TexPaths : MapHas(buildingFiles, p)}
      entries(p) == {i \in 1..Len(agg.files) : agg.files[i].file = p}
  IN /\ agg.buildingCount = Cardinality(building)
     /\ agg.status = (IF Cardinality(building) > 0 THEN "building" ELSE "idle")
     /\ isAnyBuilding(buildingFiles) <=> agg.status = "building"
     /\ Len(agg.files) = Cardinality(tracked)
     /\ \A p \in tracked :
          /\ Cardinality(entries(p)) = 1
          /\ \A i \in entries(p) : agg.files[i].status = RegistryStatus(p)
     /\ (lastSet["a.tex"] = "start" /\ lastSet["b.tex"] = "start") =>
          /\ agg.buildingCount = 2
          /\ entries("a.tex") # {} /\ entries("b.tex") # {}

\* C11 witness: startBuild(b.tex) while a.tex is building.
C11_Witness ==
  /\ lastOp.op = "startBuild" /\ lastOp.file = "b.tex"
  /\ lastSet["a.tex"] = "start"
  /\ getStatusAll(buildingFiles).buildingCount = 2
  /\ Len(getStatusAll(buildingFiles).files) = 2

\* C12: isBuilding(p) is the boolean true when the status of p is building and
\* the boolean false otherwise, also for a path that has no record;
\* isAnyBuilding() is true exactly when some tracked path is building.
C12_IsBuildingBoolean ==
  /\ \A p \in TexPaths :
       isBuilding(buildingFiles, p) =
         (IF RegistryStatus(p) = "building" THEN "true" ELSE "false")
  /\ isAnyBuilding(buildingFiles) <=>
       \E p \in TexPaths : RegistryStatus(p) = "building"

RegistryOps == {"startBuild", "finishBuild", "failBuild", "reset"}

\* C13: a step of startBuild, finishBuild, failBuild or reset(p) on path p
\* leaves the record of every other path q as it was: tracked or not, and its
\* status, startTime, endTime and error.
C13_Frame ==
  [][(lastOp'.op \in RegistryOps /\ lastOp'.file # Null) =>
       \A q \in TexPaths \ {lastOp'.file} :
         /\ MapHas(buildingFiles', q) <=> MapHas(buildingFiles, q)
         /\ buildingFiles'.vals[q] = buildingFiles.vals[q]
    ]_vars

\* C13 witness: b.tex is started later than a.tex, both are building, and the
\* record of a.tex still holds its own start time.
C13_Witness ==
  /\ lastOp.op = "startBuild" /\ lastOp.file = "b.tex"
  /\ RegistryStatus("a.tex") = "building" /\ RegistryStatus("b.tex") = "building"
  /\ getStatus(buildingFiles, "a.tex").startTime = 1
  /\ getStatus(buildingFiles, "b.tex").startTime = MaxTime

\* C14: after startBuild(p) and then finishBuild(p) or failBuild(p),
\* getStatus(p) reports the start time that startBuild recorded (not null, not
\* after the end time) together with the new end time.
C14_StartTimeKept ==
  (lastOp.op \in {"finishBuild", "failBuild"} /\ lastOp.before = "start") =>
     LET st == getStatus(buildingFiles, lastOp.file)
     IN /\ st.endTime # 0
        /\ st.startTime # 0
        /\ st.startTime <= st.endTime

\* C15: when the exit callback of a build reports an exit code (zero or not),
\* exactly one diagnostics-updated event for the file is published, and it
\* comes before the did-finish-build or did-fail-build of that build.
C15_OneDiagnosticsEvent ==
  (lastOp.op = "exit" /\ ~lastOp.args[2]) =>
     LET updates == Published(emitted, {"did-update-messages"}, lastOp.file)
         ends == Published(emitted, Terminal, lastOp.file)
     IN /\ Cardinality(updates) = 1
        /\ Cardinality(ends) = 1
        /\ \A i \in updates, j \in ends : i < j

\* ---- the log parser

\* The call of parse in progress or over has looked at line i (counted from 0)
\* of its log with one of the recognizers, and the diagnostic it built was
\* appended, dropped as a duplicate, or suppressed as help text.
RecognizedAt(i) ==
  \E n \in 1..Len(logParser.trace) :
    /\ logParser.trace[n].line = i
    /\ logParser.trace[n].by \in {"fatal", "fileLine", "box", "warning", "info"}
    /\ logParser.trace[n].result \in {"added", "duplicate", "suppressed"}

\* C16: parse returns a diagnostic list without throwing for every input text,
\* warning and info lines with an arbitrary non-blank package-name token
\* followed by further lines included: no call of parse ends in an exception.
C16_ParseNeverThrows == logParser.outcome # "threw"

\* The file stack holds a path and its bottom (last) element is the document
\* parse was called for.
StackOk(sourcePaths, rootFilePath) ==
  Len(sourcePaths) >= 1 /\ sourcePaths[Len(sourcePaths)] = rootFilePath

\* The next iteration of the loop reaches updateFileStack.
ReachesFileStack ==
  /\ logParser.outcome = "running"
  /\ logParser.lineIndex < Len(logParser.lines)
  /\ LET Q == parseStep(logParser) IN Q.trace[Len(Q.trace)].by = "stack"

\* The tokens updateFileStack is about to read in the line parse is at.
NextTokens ==
  Tokens(LinePieces(LineAt(logParser.lines, logParser.lineIndex).words),
         FALSE, <<>>, FALSE)

\* C17: at every step of parse the file stack has length at least 1 and its
\* bottom element is rootFilePath, also between two tokens of one line; a
\* close-paren token read while the stack has length 1 leaves it unchanged.
C17_FileStack ==
  logParser.outcome # "idle" =>
    /\ StackOk(logParser.sourcePaths, logParser.texFilePath)
    /\ ReachesFileStack =>
         \A n \in 0..Len(NextTokens) :
           LET sp == ApplyTokens(logParser.sourcePaths, logParser.projectPath,
                                 SubSeq(NextTokens, 1, n))
           IN /\ StackOk(sp, logParser.texFilePath)
              /\ (n < Len(NextTokens) /\ NextTokens[n + 1].pop /\ Len(sp) = 1) =>
                   ApplyToken(sp, logParser.projectPath, NextTokens[n + 1]) = sp

\* A file was opened and closed, and one more ")" was read with only the
\* document left on the stack.
C17_Witness ==
  /\ logParser.outcome = "returned"
  /\ Len(logParser.lines) = 4
  /\ SubSeq(logParser.lines, 2, 4) = <<OpenLine, CloseLine, CloseLine>>
  /\ logParser.sourcePaths = <<logParser.texFilePath>>

\* The diagnostics appended by the first n iterations of the call, in order.
RECURSIVE AppendedBy(_)
AppendedBy(n) ==
  IF n = 0 THEN <<>>
  ELSE IF logParser.trace[n].result = "added"
  THEN Append(AppendedBy(n - 1), logParser.trace[n].built)
  ELSE AppendedBy(n - 1)

\* Two diagnostics have the same fullPath, start row and excerpt.
SameDiagnostic(a, b) ==
  a.fullPath = b.fullPath /\ a.start.row = b.start.row /\ a.excerpt = b.excerpt

\* C18: a diagnostic a recognizer built is appended unless it has the same
\* fullPath, start row and excerpt as the most recently appended one, whatever
\* its severity and end position; the list of the call is exactly the appended
\* diagnostics in order, so a duplicate of an earlier diagnostic that is not
\* the most recent one is kept.
C18_Deduplication ==
  /\ logParser.messages = AppendedBy(Len(logParser.trace))
  /\ \A n \in 1..Len(logParser.trace) :
       LET it == logParser.trace[n]
           before == AppendedBy(n - 1)
       IN it.built # NoMessage =>
            it.result = IF /\ before # <<>>
                           /\ SameDiagnostic(before[Len(before)], it.built)
                        THEN "duplicate" ELSE "added"

\* An error, then an info message with the same text at the same place, then
\* the error again: one entry, the error.
C18_Witness ==
  /\ logParser.outcome = "returned"
  /\ Len(logParser.lines) = 4
  /\ SubSeq(logParser.lines, 2, 4) = <<FatalLine, InfoLine, FatalLine>>
  /\ Len(logParser.messages) = 1
  /\ logParser.messages[1].severity = "error"
  /\ logParser.trace[3].result = "duplicate"
  /\ logParser.trace[3].built.severity = "info"

\* The call of parse that is over, made on a new LogParser instead.
OnFreshInstance == parse(NewLogParser, logParser.lines, logParser.texFilePath)

\* C19: parse carries no state across calls on a shared instance: whatever
\* calls were made before, a call ends as the same call on a fresh instance
\* does, with the same list of diagnostics, the same file stack and the same
\* output path.
C19_NoCrossCallState ==
  logParser.outcome \in {"returned", "threw"} =>
    /\ logParser.outcome = OnFreshInstance.outcome
    /\ logParser.messages = OnFreshInstance.messages
    /\ logParser.sourcePaths = OnFreshInstance.sourcePaths
    /\ logParser.outputFilePath = OnFreshInstance.outputFilePath

\* A call returned a list whose first diagnostic has the fullPath, start row
\* and excerpt of the last diagnostic of the call before it, which had found
\* it on another line of another log.
C19_Witness ==
  /\ logParser.outcome = "returned"
  /\ logParser.inherited # NoMessage
  /\ logParser.messages # <<>>
  /\ SameDiagnostic(logParser.inherited, logParser.messages[1])
  /\ logParser.inherited.logRange # logParser.messages[1].logRange

\* The line matches the pattern of one of the five recognizers.
IsStructural(line) ==
  \/ FatalMatch(line).matched \/ FileLineMatch(line).matched
  \/ BoxMatch(line).matched
  \/ WarningMatch(line).matched \/ InfoMatch(line).matched

\* C20: when parse has returned, every line other than the first that matches
\* a structural pattern (fatal error, file:line error, box warning, warning,
\* info) was taken by a recognizer, and its diagnostic was appended, dropped
\* as a duplicate or suppressed as help text: none was swallowed as
\* continuation text of the message before it.
C20_NoStructuralLineSwallowed ==
  logParser.outcome = "returned" =>
    \A i \in 1..(Len(logParser.lines) - 1) :
      IsStructural(LineAt(logParser.lines, i)) => RecognizedAt(i)

\* position.end is not before position.start.
EndNotBeforeStart(message) ==
  \/ message.end.row > message.start.row
  \/ message.end.row = message.start.row /\ message.end.column >= message.start.column

\* C21: every diagnostic of the list of parse has position.end not before
\* position.start, box warnings with any line range included.
C21_EndNotBeforeStart ==
  \A i \in 1..Len(logParser.messages) : EndNotBeforeStart(logParser.messages[i])

\* A parenthesis that was opened with text that is no file path.
NotAFile == "(text)"

\* The parentheses that are open, innermost first, each with the file it
\* opened or NotAFile, after one more token: "(" with text opens, ")" closes
\* the innermost one; the document itself is never closed.
OpenAfterToken(open, projectPath, token) ==
  IF token.pop THEN IF Len(open) > 1 THEN Tail(open) ELSE open
  ELSE IF \E i \in 1..Len(token.body) : token.body[i] \in Dotted
  THEN <<Resolve(projectPath, JoinStrings(token.body))>> \o open
  ELSE <<NotAFile>> \o open

RECURSIVE OpenAfterTokens(_, _, _)
OpenAfterTokens(open, projectPath, tokens) ==
  IF tokens = <<>> THEN open
  ELSE OpenAfterTokens(OpenAfterToken(open, projectPath, Head(tokens)),
                       projectPath, Tail(tokens))

\* The open parentheses after the first n iterations of the call: the tokens
\* of the lines that updateFileStack scanned, matched pairwise.
RECURSIVE OpenAfter(_)
OpenAfter(n) ==
  IF n = 0 THEN <<logParser.texFilePath>>
  ELSE IF logParser.trace[n].by = "stack"
  THEN OpenAfterTokens(OpenAfter(n - 1), logParser.projectPath,
         Tokens(LinePieces(LineAt(logParser.lines, logParser.trace[n].line).words),
                FALSE, <<>>, FALSE))
  ELSE OpenAfter(n - 1)

\* The innermost file that is open.
InnermostFile(open) ==
  open[CHOOSE i \in 1..Len(open) :
         open[i] # NotAFile /\ \A j \in 1..(i - 1) : open[j] = NotAFile]

\* C22: a diagnostic without an explicit path (fatal error, box warning,
\* warning, info) is attributed to the innermost file whose "(path" token has
\* been scanned and whose matching ")" has not, also after parenthesised text
\* that is no file path was opened and closed inside that file.
C22_InnermostOpenFile ==
  \A n \in 1..Len(logParser.trace) :
    LET it == logParser.trace[n]
    IN (it.by \in {"fatal", "box", "warning", "info"} /\ it.built # NoMessage) =>
         it.built.fullPath = InnermostFile(OpenAfter(n - 1))

\* The first recognizer, in the order of the main loop, whose pattern the line
\* matches.
FirstRecognizer(line) ==
  IF OutputMatch(line) THEN "output"
  ELSE IF FatalMatch(line).matched THEN "fatal"
  ELSE IF FileLineMatch(line).matched THEN "fileLine"
  ELSE IF BoxMatch(line).matched THEN "box"
  ELSE IF WarningMatch(line).matched THEN "warning"
  ELSE IF InfoMatch(line).matched THEN "info"
  ELSE "stack"

C24_LogOrder ==
  \A i \in 1..(Len(logParser.messages) - 1) :
    logParser.messages[i].logRange[1] < logParser.messages[i + 1].logRange[1]

\* parse returned three diagnostics, found on three lines.
C24_Witness ==
  /\ logParser.outcome = "returned"
  /\ Len(logParser.messages) = 3
  /\ logParser.messages[1].severity # logParser.messages[2].severity

\* ---- the linter provider

\* The messages the linter holds, and the diagnostics of the setMessages call
\* that set them.
Received == linter.indieInstance.messages
Passed == linter.passed.messages

\* The linter message carries the severity, file path, rows, columns and
\* excerpt of the diagnostic.
Carries(linterMsg, msg) ==
  /\ linterMsg.severity = msg.severity
  /\ linterMsg.location.file = msg.fullPath
  /\ linterMsg.location.position =
       << <<msg.start.row, msg.start.column>>, <<msg.end.row, msg.end.column>> >>
  /\ linterMsg.excerpt = msg.excerpt

Forwarded ==
  {i \in 1..Len(Passed) :
     /\ Passed[i].severity # "info" \/ linter.passed.verbosity = "extended"
     /\ \A j \in 1..(i - 1) : MessageKey(Passed[j]) # MessageKey(Passed[i])}

\* The i-th smallest element of a set of numbers.
RECURSIVE Nth(_, _)
Nth(set, i) ==
  LET least == CHOOSE x \in set : \A y \in set : x <= y
  IN IF i = 1 THEN least ELSE Nth(set \ {least}, i - 1)

BuildEnded(pid) ==
  procs[pid] = Gone \/ procs[pid].killed \/ "error" \notin procs[pid].pending

\* C26: a request to open the PDF that was made while a build of the file was
\* in progress waits no longer once that build has ended in any way, and its
\* PDF is opened only after that build itself has published did-finish-build.
C26_OpenAfterOwnBuild ==
  \A i \in 1..Len(pdf) :
    pdf[i].pid # 0 =>
      /\ pdf[i].status = "waiting" => ~BuildEnded(pdf[i].pid)
      /\ pdf[i].status \in {"scheduled", "opened"} => pdf[i].finishedBy = pdf[i].pid

\* ---- the status bar

\* The .tex file the active item stands for: the file of a .tex editor, or
\* the .tex file next to the PDF of a viewer.
ShownFile ==
  IF activeItem.kind \in {"editor", "pdf"} /\ EndsWithTex(activeItem.path)
  THEN activeItem.path
  ELSE Null

\* C27: whenever the active item is a .tex editor or the PDF next to one, the
\* status bar shows the status stored as the build state of that file.
C27_StatusBarShowsActiveState ==
  ShownFile # Null => statusBar.status = buildStates[ShownFile].status

\* ---- compile-on-save

\* Making the last call of service.setCompileOnSave once more returns false
\* and changes nothing.
RepeatChangesNothing ==
  setCompileOnSaveForEditor(Main, lastOp.file, lastOp.args[1])
    = [state |-> Main, ret |-> "false"]

\* isCompileOnSaveEnabled(editor) is the `enabled` of the last call of
\* service.setCompileOnSave.
EnabledAsAsked ==
  isCompileOnSaveEnabled(Main, lastOp.file) = lastOp.args[1]

\* C28: service.setCompileOnSave(editor, enabled) returns true exactly when
\* it changes whether compile-on-save is enabled for some editor; after it
\* returned true isCompileOnSaveEnabled(editor) is `enabled`, and the same
\* call made again returns false and changes nothing.
C28_SetCompileOnSave ==
  [][lastOp'.op = "service.setCompileOnSave" =>
       /\ lastOp'.ret = "true" <=> compileOnSaveEditors' # compileOnSaveEditors
       /\ lastOp'.ret = "true" =>
            /\ EnabledAsAsked'
            /\ RepeatChangesNothing']_vars

C28_Witness ==
  /\ lastOp.op = "service.setCompileOnSave"
  /\ lastOp.ret = "true"
  /\ lastOp.args = <<FALSE>>
  /\ ~isCompileOnSaveEnabled(Main, lastOp.file)

\* C29: for every editor, the `enabled` of the last did-change-compile-on-save
\* event published for it says whether compile-on-save is enabled for it now,
\* and compile-on-save is not enabled for an editor no event was published for.
C29_LastEventTellsState ==
  \A editor \in TexPaths :
    isCompileOnSaveEnabled(Main, editor) <=> lastChange[editor] = "true"

\* ---- interrupting through the service

\* The compiler processes that run a build now: started, not interrupted, and
\* their exit not reported yet.
RunningBuilds ==
  {pid \in 1..Len(procs) : /\ procs[pid] # Gone
                           /\ ~procs[pid].killed
                           /\ procs[pid].pending = {"exit", "error"}}

\* C30: service.interrupt(path) returns true exactly when a build of path was
\* running and leaves no process tracked for path; service.interruptAll()
\* returns the number of builds that were running and leaves no process
\* tracked.
C30_ServiceInterrupt ==
  [][/\ lastOp'.op = "service.interrupt" =>
          /\ lastOp'.ret = "true" <=>
               \E pid \in RunningBuilds : procs[pid].file = lastOp'.file
          /\ ~MapHas(buildProcesses', lastOp'.file)
     /\ lastOp'.op = "service.interruptAll" =>
          /\ lastOp'.ret = Cardinality(RunningBuilds)
          /\ buildProcesses'.keys = <<>>]_vars

\* ---- the panel

\* Message a may stand before message b: a lower severity rank, or the same
\* severity and a start row that is not greater.
MayPrecede(a, b) ==
  \/ severityOrder(a.severity) < severityOrder(b.severity)
  \/ a.severity = b.severity /\ a.row <= b.row

\* C31: after LaTeXPanel.setMessages the displayed list is ordered by
\* severity rank (error, warning, info) and within one severity by ascending
\* start row, whatever list was passed in.
C31_PanelOrder ==
  latexPanel.passed.made =>
    \A i \in 1..Len(latexPanel.messages), j \in 1..Len(latexPanel.messages) :
      i < j => MayPrecede(latexPanel.messages[i], latexPanel.messages[j])

\* A list of three messages that came with the info first and, of two errors,
\* the one of the later row first, and is displayed whole.
C31_Witness ==
  /\ latexPanel.passed.made
  /\ Len(latexPanel.passed.messages) = 3
  /\ latexPanel.passed.messages[1].severity = "info"
  /\ latexPanel.passed.messages[2] = PanelMessage("error", 4, "Undefined control sequence")
  /\ latexPanel.passed.messages[3] = PanelMessage("error", 0, "Undefined control sequence")
  /\ Len(latexPanel.messages) = 3

\* ---- tracking the compiler processes

\* C32: a path has an entry in the process-tracking map exactly while a
\* compiler process spawned for it runs a build, and the entry is that
\* process: every running build is tracked, so it can be interrupted, and no
\* path has two.
C32_TrackedWhileRunning ==
  /\ \A p \in TexPaths :
       MapHas(buildProcesses, p) =>
         /\ buildProcesses.vals[p].process \in RunningBuilds
         /\ procs[buildProcesses.vals[p].process].file = p
  /\ \A pid \in RunningBuilds :
       /\ MapHas(buildProcesses, procs[pid].file)
       /\ buildProcesses.vals[procs[pid].file].process = pid

\* ---- terminal events

\* Whether, in the events evs seen in order by a subscriber who last saw
\* seen[p] for each path p, no did-finish-build or did-fail-build of a path
\* follows another one without a did-start-build of the path between them.
RECURSIVE OneTerminalPerStart(_, _)
OneTerminalPerStart(seen, evs) ==
  IF evs = <<>> THEN TRUE
  ELSE LET e == Head(evs)
       IN /\ e.type \in Terminal => seen[e.file] \notin {"finish", "fail"}
          /\ OneTerminalPerStart(Observe(seen, <<e>>), Tail(evs))

\* C33: after a did-start-build of a path at most one terminal event
\* (did-finish-build or did-fail-build) is published for the path before its
\* next did-start-build, however interrupts and the exit and error callbacks
\* of the process interleave.
C33_OneTerminalPerStart == [][OneTerminalPerStart(lastSet, emitted')]_vars

\* ---- the two records of a build's state

\* C34: for every path the status of the orchestrator's build state,
\* getBuildState(p).status, is the status the registry reports,
\* getStatus(p).status.
C34_StatesAgree ==
  \A p \in TexPaths : getBuildState(Main, p).status = RegistryStatus(p)

\* ---- status changes seen by subscribers

\* C35: when an operation has published status-change events for a path, the
\* status of the last of them is the status the registry reports for the
\* path afterwards, also when a subscribed callback calls service.compile
\* while the events are being published.
C35_LastStatusChangeIsCurrent ==
  \A p \in TexPaths :
    LET changes == Published(emitted, {"did-change-build-status"}, p)
    IN changes # {} =>
         emitted[CHOOSE i \in changes : \A j \in changes : j <= i].status
           = RegistryStatus(p)

\* ---- fatal errors

\* A line at which a fatal error stops absorbing lines: a context line
\* l.<N> ..., an empty line, or a line that starts another message.
StopsFatal(line) ==
  \/ LineContextMatch(line).matched
  \/ IsEmptyLine(line)
  \/ StartsNewMessage(line)
  \/ FileLineMatch(line).matched

\* The index of the first such line after line i, or the number of lines.
FatalStop(lines, i) ==
  LET stops == {j \in (i + 1)..(Len(lines) - 1) : StopsFatal(LineAt(lines, j))}
  IN IF stops = {} THEN Len(lines)
     ELSE CHOOSE j \in stops : \A k \in stops : j <= k

\* The words of the lines from..(to - 1) that are not source context
\* (<...> and ... lines), in order.
RECURSIVE AbsorbedText(_, _, _)
AbsorbedText(lines, from, to) ==
  IF from >= to THEN <<>>
  ELSE (IF LooksLikeSourceContext(LineAt(lines, from)) THEN <<>>
        ELSE LineAt(lines, from).words) \o AbsorbedText(lines, from + 1, to)

\* What the claim asks of the fatal error at line it.line; `zeroIsMissing`
\* tells whether a context line l.0 counts as no line number.
FatalAsExpected(it, zeroIsMissing) ==
  LET lines == logParser.lines
      stop == FatalStop(lines, it.line)
      atContext == stop < Len(lines) /\ LineContextMatch(LineAt(lines, stop)).matched
      N == LineContextMatch(LineAt(lines, stop)).lineNumber
  IN /\ it.result \in {"added", "duplicate"}
     /\ it.built.severity = "error"
     /\ it.built.excerpt = FatalMatch(LineAt(lines, it.line)).text
                             \o AbsorbedText(lines, it.line + 1, stop)
     /\ it.built.start.row = IF atContext /\ ~(zeroIsMissing /\ N = 0) THEN N - 1 ELSE 0
     /\ it.next = IF atContext THEN stop + 1 ELSE stop

\* C36 as stated: the start row is N - 1 whenever a context line l.N stopped
\* the absorption.
C36_RowFromContext ==
  \A n \in 1..Len(logParser.trace) :
    logParser.trace[n].by = "fatal" => FatalAsExpected(logParser.trace[n], FALSE)

\* C36: a fatal-error line "! msg" builds one error diagnostic whose excerpt
\* is msg and the text of the lines absorbed after it, joined by single
\* blanks; absorption stops at the first context line l.N, empty line or line
\* starting another message; the start row is N - 1 when a context line with
\* N >= 1 stopped it and 0 otherwise.
C36_FatalError ==
  \A n \in 1..Len(logParser.trace) :
    logParser.trace[n].by = "fatal" => FatalAsExpected(logParser.trace[n], TRUE)

\* A fatal error with a line of text and its context line l.12.
C36_Witness ==
  /\ logParser.outcome = "returned"
  /\ Len(logParser.lines) = 4
  /\ SubSeq(logParser.lines, 2, 4) = <<FatalLine, TextLine, ContextLine>>
  /\ Len(logParser.messages) = 1
  /\ logParser.messages[1].excerpt = Tail(FatalLine.words) \o TextLine.words
  /\ logParser.messages[1].start.row = 11

\* ---- file:line errors

\* A line a file:line error takes as continuation text: indented and not
\* blank, and not itself a file:line error.
ContinuesFileLine(line) ==
  line.indent > 0 /\ line.words # <<>> /\ ~FileLineMatch(line).matched

\* The index of the first line after line i that is not such a line, or the
\* number of lines.
FileLineStop(lines, i) ==
  LET stops == {j \in (i + 1)..(Len(lines) - 1) : ~ContinuesFileLine(LineAt(lines, j))}
  IN IF stops = {} THEN Len(lines)
     ELSE CHOOSE j \in stops : \A k \in stops : j <= k

\* The words of the lines from..(to - 1), in order.
RECURSIVE WordsOf(_, _, _)
WordsOf(lines, from, to) ==
  IF from >= to THEN <<>>
  ELSE LineAt(lines, from).words \o WordsOf(lines, from + 1, to)

\* The message text begins with "The ", "This ", "You ", "See ", "Type " or
\* "That makes ".
BeginsWithHelpMarker(text) ==
  \E marker \in {<<W("The")>>, <<W("This")>>, <<W("You")>>, <<W("See")>>,
                  <<W("Type")>>, <<W("That"), W("makes")>>} :
    /\ Len(text) > Len(marker)
    /\ SubSeq(text, 1, Len(marker)) = marker

\* What the claim asks of the file:line error at line it.line.
FileLineAsExpected(it) ==
  LET lines == logParser.lines
      match == FileLineMatch(LineAt(lines, it.line))
      stop == FileLineStop(lines, it.line)
      atContext == stop < Len(lines) /\ LineContextMatch(LineAt(lines, stop)).matched
      text == match.text \o WordsOf(lines, it.line + 1, stop)
  IN /\ it.next = IF atContext THEN stop + 1 ELSE stop
     /\ IF BeginsWithHelpMarker(text)
        THEN it.result = "suppressed" /\ it.built = NoMessage
        ELSE /\ it.result \in {"added", "duplicate"}
             /\ it.built.severity = "error"
             /\ it.built.excerpt = text
             /\ it.built.start.row = match.lineNumber - 1
             /\ it.built.fullPath
                  = Resolve(Dirname(logParser.texFilePath), match.filePath)

RECURSIVE StackAfter(_)
StackAfter(n) ==
  IF n = 0 THEN <<logParser.texFilePath>>
  ELSE LET it == logParser.trace[n]
           before == StackAfter(n - 1)
       IN IF it.by = "stack"
          THEN updateFileStack([sourcePaths |-> before,
                                projectPath |-> Dirname(logParser.texFilePath)],
                               LineAt(logParser.lines, it.line)).sourcePaths
          ELSE before

\* The numbers N and M of a box line, read from its last word "N" or "N--M".
BoxLines(line) ==
  LET w == line.words[Len(line.words)]
  IN [N |-> Val(w.d),
      M |-> IF w.s = "" THEN Val(w.d) ELSE Val(DashNumber[w.s])]

\* What the claim asks of iteration n, taken by the box recognizer.
BoxAsExpected(n) ==
  LET it == logParser.trace[n]
      range == BoxLines(LineAt(logParser.lines, it.line))
  IN /\ it.built.severity = "info"
     /\ it.built.start.row = range.N - 1
     /\ it.built.end.row = range.M - 1
     /\ it.built.fullPath = StackAfter(n - 1)[1]
     /\ it.built.logRange = <<it.line, it.line>>
     /\ it.next = it.line + 1

\* The diagnostic added last before iteration n, if any.
RECURSIVE LastAddedBefore(_)
LastAddedBefore(n) ==
  IF n <= 1 THEN NoMessage
  ELSE IF logParser.trace[n - 1].result = "added" THEN logParser.trace[n - 1].built
  ELSE LastAddedBefore(n - 1)

\* The diagnostic built by iteration n has the path, start row and text of
\* the diagnostic added last.
RepeatsLastAdded(n) ==
  LET last == LastAddedBefore(n)
      built == logParser.trace[n].built
  IN /\ last # NoMessage
     /\ last.fullPath = built.fullPath
     /\ last.start.row = built.start.row
     /\ last.excerpt = built.excerpt

\* C38 as stated: every box line adds exactly one diagnostic to the list.
C38_ExactlyOneDiagnostic ==
  \A n \in 1..Len(logParser.trace) :
    logParser.trace[n].by = "box" =>
      BoxAsExpected(n) /\ logParser.trace[n].result = "added"

\* C38: a box line "at lines N--M" or "at line N" builds one info diagnostic
\* that spans rows N - 1 to M - 1 (M = N when absent) of the file on top of
\* the file stack and takes one log line; the diagnostic is added to the list
\* unless it has the path, start row and text of the diagnostic added last.
C38_BoxWarning ==
  \A n \in 1..Len(logParser.trace) :
    logParser.trace[n].by = "box" =>
      /\ BoxAsExpected(n)
      /\ logParser.trace[n].result
           = IF RepeatsLastAdded(n) THEN "duplicate" ELSE "added"

\* A box warning of lines 5--7 inside chap.tex, and after it one of lines
\* 5--9 with the same text, which is dropped.
C38_Witness ==
  /\ logParser.outcome = "returned"
  /\ Len(logParser.lines) = 4
  /\ SubSeq(logParser.lines, 2, 4) = <<OpenLine, BoxLine, BoxLineWider>>
  /\ Len(logParser.messages) = 1
  /\ logParser.messages[1].fullPath = "/p/chap.tex"
  /\ logParser.messages[1].start.row = 4 /\ logParser.messages[1].end.row = 6
  /\ logParser.trace[4].result = "duplicate"

\* ---- continuation lines of warnings and info messages

\* The continuation lines of a message as the claim collects them, from line
\* `index` on: `text` is the text so far and `repaired` the digits of the number
\* completed last by a line that starts with digits, if any.
RECURSIVE ContinuationAsStated(_, _, _, _, _)
ContinuationAsStated(lines, index, packageName, text, repaired) ==
  IF index >= Len(lines)
  THEN [text |-> text, nextIndex |-> index, repaired |-> repaired]
  ELSE LET line == LineAt(lines, index)
       IN IF line.indent >= 15 /\ line.words # <<>>
          THEN ContinuationAsStated(lines, index + 1, packageName,
                                    text \o line.words, repaired)
          ELSE IF /\ packageName # W(Null) /\ line.indent = 0 /\ Len(line.words) >= 2
                  /\ WordStr(line.words[1]) = "(" \o WordStr(packageName) \o ")"
          THEN ContinuationAsStated(lines, index + 1, packageName,
                                    text \o Tail(line.words), repaired)
          ELSE IF EndsWithLineNumber(text) /\ LineStartsWithDigit(line)
          THEN LET m == DigitMatch(line)
                   number == text[Len(text)].d \o m.digits.d
               IN ContinuationAsStated(lines, index + 1, packageName,
                                       SubSeq(text, 1, Len(text) - 1)
                                         \o <<D(number, m.digits.s)>> \o m.rest,
                                       number)
          ELSE [text |-> text, nextIndex |-> index, repaired |-> repaired]

\* The excerpt of a warning or info message with the text `text`.
TaggedExcerpt(match, text) ==
  IF match.packageName = W(Null) /\ match.origin = W("LaTeX") THEN text
  ELSE (IF match.packageName # W(Null)
        THEN <<match.origin, D(match.packageName.d, match.packageName.s \o ":")>>
        ELSE <<W(match.origin.s \o ":")>>)
       \o (IF text = <<>> THEN <<W("")>> ELSE text)

\* C39: a warning or info message takes as continuation lines the lines
\* indented by 15 or more columns, the "(<package>) text" lines and, when the
\* text so far ends in "line <digits>", the lines that start with digits;
\* such digits are appended without a blank and everything else with one
\* blank, the start row is the repaired number minus 1, and the scan goes on
\* at the first line that is none of the three.
C39_ContinuationLines ==
  \A n \in 1..Len(logParser.trace) :
    LET it == logParser.trace[n]
        line == LineAt(logParser.lines, it.line)
        match == IF it.by = "warning" THEN WarningMatch(line) ELSE InfoMatch(line)
        stated == ContinuationAsStated(logParser.lines, it.line + 1,
                                       match.packageName, match.text, <<>>)
    IN (it.by \in {"warning", "info"} /\ it.result # "threw") =>
         /\ it.next = stated.nextIndex
         /\ it.built.excerpt = TaggedExcerpt(match, stated.text)
         /\ stated.repaired # <<>> => it.built.start.row = Val(stated.repaired) - 1

\* ---- termination of parse

\* A step after which parse is still in its loop has moved the line cursor
\* forward.
CursorAdvances ==
  (logParser.outcome = "running" /\ logParser'.outcome = "running") =>
    logParser'.lineIndex > logParser.lineIndex

\* The call of parse is over: it returned, or an exception left it.
ParseEnded == logParser.outcome \in {"returned", "threw"}

\* C40: parse terminates on every log: every iteration of the main loop,
\* with the helper it calls, moves the line cursor forward by at least one
\* line and never backwards, and a call of parse in progress ends.
C40_ParseTerminates ==
  /\ [][CursorAdvances]_vars
  /\ (logParser.outcome = "running") ~> ParseEnded

\* parse returned after a warning that took a second line with it and a
\* fatal error, the cursor at the end of the log.
C40_Witness ==
  /\ logParser.outcome = "returned"
  /\ Len(logParser.lines) = 4
  /\ SubSeq(logParser.lines, 2, 4) = <<WarningLine, DigitLine, FatalLine>>
  /\ logParser.lineIndex = 4
  /\ Len(logParser.trace) = 3
  /\ logParser.trace[2].next = 3

====
